---- MODULE Spec2Model ----
(***************************************************************************)
(* Team-video slot assignment engine of FGCteamfiller (src/app.py):        *)
(* compute_team_video_assignments together with the helpers it calls       *)
(* (normalize_country_code, find_video_entry_for_code, _hungarian_algorithm).*)
(*                                                                         *)
(* Numbers.  The engine computes with floats of three magnitudes: video    *)
(* values, the 1e-6 placeholder-index term and the 1e11 / 1e12 penalty     *)
(* costs.  A cost is modelled as an exact triple [h, v, e] standing for    *)
(* h * 1e11 + v + e * 1e-6, compared lexicographically; this is exact      *)
(* real arithmetic for |v| < 1e11 and |e| < 1e6 and does not model the     *)
(* rounding of binary64.  math.inf is the record with inf = TRUE.          *)
(***************************************************************************)
EXTENDS Integers, Sequences, FiniteSets, TLC

(* ------------------------------ bounds --------------------------------- *)
MaxSlots == 3
MaxCountries == 2

(* -------------------------- generic helpers ---------------------------- *)
Some(x) == <<x>>
None == <<>>
IsNone(o) == o = <<>>
Get(o) == o[1]

Range(s) == {s[i] : i \in 1..Len(s)}

Contains(s, x) == \E i \in 1..Len(s) : s[i] = x

RECURSIVE SumSeq(_)
SumSeq(s) == IF s = <<>> THEN 0 ELSE Head(s) + SumSeq(Tail(s))

(* list(dict.fromkeys(s)): first occurrences, order kept *)
RECURSIVE DictFromKeys(_)
DictFromKeys(s) ==
    IF s = <<>> THEN <<>>
    ELSE LET init == DictFromKeys(SubSeq(s, 1, Len(s) - 1))
             last == s[Len(s)]
         IN IF Contains(init, last) THEN init ELSE Append(init, last)

(* -------------------------------- text --------------------------------- *)
(* A str is a sequence of characters.  A character is written as itself;
   the characters outside ASCII that the model uses have names:
   "o^" (o with circumflex), "O^" (its capital), "^" (combining circumflex),
   "rsquo" (right single quotation mark), "sz" (sharp s), "ndash", "mdash",
   "RI-K", "RI-R" (regional indicator symbols K and R), and "sup2"
   (superscript two).  The only whitespace character of the model is the
   space. *)
LatinLower == <<"a", "b", "c", "d", "e", "f", "g", "h", "i", "j", "k", "l", "m",
                "n", "o", "p", "q", "r", "s", "t", "u", "v", "w", "x", "y", "z">>
LatinUpper == <<"A", "B", "C", "D", "E", "F", "G", "H", "I", "J", "K", "L", "M",
                "N", "O", "P", "Q", "R", "S", "T", "U", "V", "W", "X", "Y", "Z">>
DecimalChars == {"0", "1", "2", "3", "4", "5", "6", "7", "8", "9"}
RegionalIndicators == {"RI-K", "RI-R"}

(* the capital of each small letter and the small letter of each capital;
   the capital of sharp s is SS *)
UpperCase ==
    [c \in Range(LatinLower) \cup {"o^", "sz"} |->
        IF c = "o^" THEN <<"O^">>
        ELSE IF c = "sz" THEN <<"S", "S">>
        ELSE <<LatinUpper[CHOOSE i \in 1..26 : LatinLower[i] = c]>>]

LowerCase ==
    [c \in Range(LatinUpper) \cup {"O^"} |->
        IF c = "O^" THEN <<"o^">>
        ELSE <<LatinLower[CHOOSE i \in 1..26 : LatinUpper[i] = c]>>]

(* [a-z] and [A-Z] *)
LowerLetters == Range(LatinLower)
UpperLetters == Range(LatinUpper)

IsLower(c) == c \in LowerLetters
IsUpper(c) == c \in UpperLetters

(* \w of a str pattern: letters of any script, digits and the underscore *)
WordChars == LowerLetters \cup UpperLetters \cup DecimalChars \cup {"_", "o^", "O^", "sz"}

IsWordChar(c) == c \in WordChars

(* str.upper() and str.lower() of one character *)
CharUpper(c) == IF c \in DOMAIN UpperCase THEN UpperCase[c] ELSE <<c>>

CharLower(c) == IF c \in DOMAIN LowerCase THEN LowerCase[c] ELSE <<c>>

(* unicodedata.normalize("NFKD", c): the letter and its combining mark *)
CharNFKD(c) ==
    IF c = "o^" THEN <<"o", "^">>
    ELSE IF c = "O^" THEN <<"O", "^">>
    ELSE <<c>>

(* "".join(f(ch) for ch in s) *)
RECURSIVE MapChars(_, _)
MapChars(F(_), s) == IF s = <<>> THEN <<>> ELSE F(Head(s)) \o MapChars(F, Tail(s))

Upper(s) == MapChars(CharUpper, s)
Lower(s) == MapChars(CharLower, s)

(* s.lstrip(chars), s.rstrip(chars), s.strip(chars) *)
RECURSIVE LStripChars(_, _)
LStripChars(s, chars) ==
    IF s # <<>> /\ Head(s) \in chars THEN LStripChars(Tail(s), chars) ELSE s

RECURSIVE RStripChars(_, _)
RStripChars(s, chars) ==
    IF s # <<>> /\ s[Len(s)] \in chars THEN RStripChars(SubSeq(s, 1, Len(s) - 1), chars)
    ELSE s

StripChars(s, chars) == RStripChars(LStripChars(s, chars), chars)

(* s.strip() *)
Strip(s) == StripChars(s, {" "})

(* value.strip(" -–—,:") *)
NoisePunctuation == {" ", "-", "ndash", "mdash", ",", ":"}

(* s.startswith(prefix) at position i (1-based), and `sub in s` *)
MatchesAt(s, i, sub) ==
    /\ i + Len(sub) - 1 <= Len(s)
    /\ \A k \in 1..Len(sub) : s[i + k - 1] = sub[k]

ContainsText(s, sub) == \E i \in 1..(Len(s) + 1) : MatchesAt(s, i, sub)

(* s.replace(old, new), left to right, not overlapping *)
RECURSIVE ReplaceText(_, _, _)
ReplaceText(s, old, new) ==
    IF s = <<>> THEN <<>>
    ELSE IF MatchesAt(s, 1, old) THEN new \o ReplaceText(SubSeq(s, Len(old) + 1, Len(s)), old, new)
    ELSE <<Head(s)>> \o ReplaceText(Tail(s), old, new)

(* \b at the position before s[i] (i = Len(s) + 1: the end) *)
WordBoundary(s, i) ==
    (i > 1 /\ IsWordChar(s[i - 1])) # (i <= Len(s) /\ IsWordChar(s[i]))

(* the number of characters from position i on that are in chars: a greedy
   run such as \s* or [\s:-]* *)
RECURSIVE RunLength(_, _, _)
RunLength(s, i, chars) ==
    IF i <= Len(s) /\ s[i] \in chars THEN 1 + RunLength(s, i + 1, chars) ELSE 0

(* re.IGNORECASE: the literal `word` (lower case) matches at position i *)
MatchesFoldAt(s, i, word) ==
    /\ i + Len(word) - 1 <= Len(s)
    /\ Lower(SubSeq(s, i, i + Len(word) - 1)) = word

NoiseWords == {<<"t", "e", "a", "m">>, <<"d", "e", "l", "e", "g", "a", "t", "i", "o", "n">>}
NoiseSeparators == {" ", ":", "-"}

(* FLAG_EMOJI_PATTERN.match(text): the span of group 1, or None *)
FlagEmojiSpan(text) ==
    LET start == 1 + RunLength(text, 1, {" "})
    IN  IF /\ start + 1 <= Len(text)
           /\ text[start] \in RegionalIndicators
           /\ text[start + 1] \in RegionalIndicators
        THEN Some(start)
        ELSE None

strip_leading_flag_emoji(text) ==
    LET match == FlagEmojiSpan(text)
    IN  IF IsNone(match) THEN Strip(text)
        ELSE Strip(SubSeq(text, 1, Get(match) - 1) \o SubSeq(text, Get(match) + 2, Len(text)))

(* the end (exclusive) of the match of `word \b [\s:-]*` at position i of
   value, or 0 when it does not match there *)
WordThenSeparatorsEnd(value, i, word) ==
    IF MatchesFoldAt(value, i, word) /\ WordBoundary(value, i + Len(word))
    THEN i + Len(word) + RunLength(value, i + Len(word), NoiseSeparators)
    ELSE 0

(* the position after the optional `(first\s+global|fgc)\s+` at the start
   of value; 1 when value has no such prefix *)
LeadingPrefixEnd(value) ==
    LET first == <<"f", "i", "r", "s", "t">>
        global == <<"g", "l", "o", "b", "a", "l">>
        fgc == <<"f", "g", "c">>
        gap == RunLength(value, 6, {" "})
        head == IF MatchesFoldAt(value, 1, first) /\ gap > 0
                   /\ MatchesFoldAt(value, 6 + gap, global)
                THEN 6 + gap + 6
                ELSE IF MatchesFoldAt(value, 1, fgc) THEN 4 ELSE 0
    IN  IF head > 0 /\ RunLength(value, head, {" "}) > 0
        THEN head + RunLength(value, head, {" "})
        ELSE 1

(* COUNTRY_NAME_LEADING_NOISE_PATTERN.sub("", value) *)
LeadingNoiseSub(value) ==
    LET at == LeadingPrefixEnd(value)
        ends == {WordThenSeparatorsEnd(value, at, word) : word \in NoiseWords} \ {0}
    IN  IF ends = {} THEN value
        ELSE SubSeq(value, CHOOSE e \in ends : TRUE, Len(value))

(* the while loop of _strip_country_name_noise *)
RECURSIVE StripLeadingNoise(_)
StripLeadingNoise(value) ==
    LET without == LeadingNoiseSub(value)
    IN  IF without = value THEN value
        ELSE StripLeadingNoise(StripChars(without, NoisePunctuation))

(* re.sub(r"(?i)^of\b[\s:-]*", "", value) *)
LeadingOfSub(value) ==
    LET stop == WordThenSeparatorsEnd(value, 1, <<"o", "f">>)
    IN  IF stop = 0 THEN value ELSE SubSeq(value, stop, Len(value))

(* a trailing pattern that takes any final word for a noise word *)
TrailingWordSub(value) ==
    LET kept == RStripChars(value, WordChars)
    IN  IF kept = value THEN value ELSE RStripChars(kept, NoiseSeparators)

(* COUNTRY_NAME_TRAILING_NOISE_PATTERN.sub("", value): the leftmost match
   starts at the separators before the final noise word *)
TrailingNoiseSub(value) ==
    LET words == {word \in NoiseWords :
                    /\ Len(word) <= Len(value)
                    /\ MatchesFoldAt(value, Len(value) - Len(word) + 1, word)
                    /\ WordBoundary(value, Len(value) + 1)}
    IN  IF words = {} THEN value
        ELSE LET word == CHOOSE w \in words : TRUE
             IN  RStripChars(SubSeq(value, 1, Len(value) - Len(word)), NoiseSeparators)

_strip_country_name_noise(name) ==
    LET value == Strip(name)
    IN  IF value = <<>> THEN value
        ELSE StripChars(
                 TrailingNoiseSub(
                     StripChars(LeadingOfSub(StripLeadingNoise(value)), NoisePunctuation)),
                 NoisePunctuation)

(* the steps of _normalize_country_name *)
IsCombining(c) == c = "^"

DropCombining(c) == IF IsCombining(c) THEN <<>> ELSE <<c>>

StraightenQuote(c) == IF c = "rsquo" THEN <<"'">> ELSE <<c>>

KeepLowerAlnum(c) == IF IsLower(c) \/ c \in DecimalChars THEN <<c>> ELSE <<>>

_normalize_country_name(name) ==
    MapChars(KeepLowerAlnum,
        Lower(MapChars(StraightenQuote,
            MapChars(DropCombining, MapChars(CharNFKD, name)))))

normalize_country_lookup_value(name) ==
    _normalize_country_name(_strip_country_name_noise(strip_leading_flag_emoji(name)))

(* re.sub(r"\s*\(.*?\)", "", s) *)
RECURSIVE RemoveParenthesised(_)
RemoveParenthesised(s) ==
    IF s = <<>> THEN <<>>
    ELSE LET open == 1 + RunLength(s, 1, {" "})
             closes == {j \in (open + 1)..Len(s) : s[j] = ")"}
         IN  IF open <= Len(s) /\ s[open] = "(" /\ closes # {}
             THEN RemoveParenthesised(
                      SubSeq(s, 1 + (CHOOSE j \in closes : \A k \in closes : j <= k), Len(s)))
             ELSE <<Head(s)>> \o RemoveParenthesised(Tail(s))

(* s.split(",") *)
RECURSIVE SplitCommas(_)
SplitCommas(s) ==
    LET commas == {i \in 1..Len(s) : s[i] = ","}
    IN  IF commas = {} THEN <<s>>
        ELSE LET i == CHOOSE c \in commas : \A d \in commas : c <= d
             IN  <<SubSeq(s, 1, i - 1)>> \o SplitCommas(SubSeq(s, i + 1, Len(s)))

(* [part.strip() for part in stripped.split(",") if part.strip()] *)
CommaParts(stripped) ==
    LET pieces == SplitCommas(stripped)
    IN  SelectSeq([i \in 1..Len(pieces) |-> Strip(pieces[i])], LAMBDA part : part # <<>>)

_generate_country_name_variants(name) ==
    LET stripped == Strip(name)
        and == <<" ", "a", "n", "d", " ">>
        parts == CommaParts(stripped)
        without_parens == Strip(RemoveParenthesised(stripped))
    IN  IF stripped = <<>> THEN {}
        ELSE ({stripped, MapChars(StraightenQuote, stripped), Upper(stripped)}
              \cup (IF Contains(stripped, "(") /\ Contains(stripped, ")")
                    THEN {without_parens} ELSE {})
              \cup (IF Contains(stripped, ",")
                    THEN Range(parts)
                         \cup (IF Len(parts) = 2 THEN {parts[2] \o <<" ">> \o parts[1]}
                               ELSE {})
                    ELSE {})
              \cup (IF ContainsText(Lower(stripped), and)
                    THEN {ReplaceText(stripped, and, <<" ", "&", " ">>)} ELSE {}))
             \ {<<>>}

(* ------------------------ country enumeration -------------------------- *)
(* the alpha-3 codes the model names *)
AND == <<"A", "N", "D">>
ATG == <<"A", "T", "G">>
CIV == <<"C", "I", "V">>
CZE == <<"C", "Z", "E">>
FSM == <<"F", "S", "M">>
KOR == <<"K", "O", "R">>
TWN == <<"T", "W", "N">>
USA == <<"U", "S", "A">>

(* Eight lines of COUNTRY_CODE_DATA (iso3, iso2, name), in file order. *)
COUNTRY_CODE_DATA ==
    << [iso3 |-> AND, iso2 |-> <<"A", "D">>, name |-> <<"A", "n", "d", "o", "r", "r", "a">>],
       [iso3 |-> ATG, iso2 |-> <<"A", "G">>, name |-> <<"A", "n", "t", "i", "g", "u", "a", " ", "a", "n", "d", " ", "B", "a", "r", "b", "u", "d", "a">>],
       [iso3 |-> CIV, iso2 |-> <<"C", "I">>, name |-> <<"C", "o^", "t", "e", " ", "d", "rsquo", "I", "v", "o", "i", "r", "e">>],
       [iso3 |-> CZE, iso2 |-> <<"C", "Z">>, name |-> <<"C", "z", "e", "c", "h", "i", "a">>],
       [iso3 |-> KOR, iso2 |-> <<"K", "R">>, name |-> <<"R", "e", "p", "u", "b", "l", "i", "c", " ", "o", "f", " ", "K", "o", "r", "e", "a">>],
       [iso3 |-> FSM, iso2 |-> <<"F", "M">>, name |-> <<"M", "i", "c", "r", "o", "n", "e", "s", "i", "a", " ", "(", "F", "e", "d", "e", "r", "a", "t", "e", "d", " ", "S", "t", "a", "t", "e", "s", " ", "o", "f", ")">>],
       [iso3 |-> TWN, iso2 |-> <<"T", "W">>, name |-> <<"T", "a", "i", "w", "a", "n", ",", " ", "P", "r", "o", "v", "i", "n", "c", "e", " ", "o", "f", " ", "C", "h", "i", "n", "a">>],
       [iso3 |-> USA, iso2 |-> <<"U", "S">>, name |-> <<"U", "n", "i", "t", "e", "d", " ", "S", "t", "a", "t", "e", "s", " ", "o", "f", " ", "A", "m", "e", "r", "i", "c", "a">>] >>

COUNTRY_CODE_TO_INFO == {COUNTRY_CODE_DATA[i].iso3 : i \in 1..Len(COUNTRY_CODE_DATA)}

ISO2_TO_ISO3 ==
    [a \in {COUNTRY_CODE_DATA[i].iso2 : i \in 1..Len(COUNTRY_CODE_DATA)} |->
        LET first == CHOOSE i \in 1..Len(COUNTRY_CODE_DATA) :
                        /\ COUNTRY_CODE_DATA[i].iso2 = a
                        /\ \A k \in 1..(i - 1) : COUNTRY_CODE_DATA[k].iso2 # a
        IN COUNTRY_CODE_DATA[first].iso3]

ADDITIONAL_COUNTRY_ALIASES(code) ==
    CASE code = CIV -> <<<<"I", "v", "o", "r", "y", " ", "C", "o", "a", "s", "t">>, <<"C", "o", "t", "e", " ", "d", "'", "I", "v", "o", "i", "r", "e">>>>
      [] code = CZE -> <<<<"C", "z", "e", "c", "h", " ", "R", "e", "p", "u", "b", "l", "i", "c">>>>
      [] code = FSM -> <<<<"M", "i", "c", "r", "o", "n", "e", "s", "i", "a">>>>
      [] code = KOR -> <<<<"S", "o", "u", "t", "h", " ", "K", "o", "r", "e", "a">>, <<"R", "e", "p", "u", "b", "l", "i", "c", " ", "o", "f", " ", "K", "o", "r", "e", "a">>>>
      [] code = TWN -> <<<<"T", "a", "i", "w", "a", "n">>>>
      [] code = USA -> <<<<"U", "n", "i", "t", "e", "d", " ", "S", "t", "a", "t", "e", "s">>, <<"U", "S", "A">>, <<"U", "n", "i", "t", "e", "d", " ", "S", "t", "a", "t", "e", "s", " ", "o", "f", " ", "A", "m", "e", "r", "i", "c", "a">>>>
      [] OTHER -> <<>>

COUNTRY_KEYWORD_MATCHES ==
    << <<<<"h", "o", "n", "g", "k", "o", "n", "g">>, <<"H", "K", "G">>>>, <<<<"p", "a", "l", "e", "s", "t", "i", "n">>, <<"P", "S", "E">>>>, <<<<"m", "o", "l", "d", "o", "v">>, <<"M", "D", "A">>>>,
       <<<<"m", "i", "c", "r", "o", "n", "e", "s">>, FSM>>, <<<<"i", "r", "a", "n">>, <<"I", "R", "N">>>>, <<<<"c", "h", "i", "n", "a">>, <<"C", "H", "N">>>>,
       <<<<"t", "u", "r", "k", "i", "y", "e">>, <<"T", "U", "R">>>> >>

(* sorted() on alpha-3 codes: position in alphabetical order *)
CodeOrder == <<AND, ATG, CIV, CZE, FSM, KOR, TWN, USA>>
CodeRank(c) == CHOOSE i \in 1..Len(CodeOrder) : CodeOrder[i] = c
CodeLess(a, b) == CodeRank(a) < CodeRank(b)

(* the spellings entered for one line of the data: variants of the name,
   the supplemental aliases, the alpha-3 and the alpha-2 code *)
LineVariants(line) ==
    _generate_country_name_variants(line.name)
        \cup Range(ADDITIONAL_COUNTRY_ALIASES(line.iso3))
        \cup {line.iso3, line.iso2}

(* the non-empty keys one line produces *)
LineKeys(line) == {_normalize_country_name(variant) : variant \in LineVariants(line)} \ {<<>>}

(* the loop over the data lines: a key belongs to the first line that
   produces it *)
COUNTRY_NAME_TO_CODE ==
    [normalized \in UNION {LineKeys(COUNTRY_CODE_DATA[i]) : i \in 1..Len(COUNTRY_CODE_DATA)} |->
        COUNTRY_CODE_DATA[CHOOSE i \in 1..Len(COUNTRY_CODE_DATA) :
                              /\ normalized \in LineKeys(COUNTRY_CODE_DATA[i])
                              /\ \A k \in 1..(i - 1) :
                                     normalized \notin LineKeys(COUNTRY_CODE_DATA[k])].iso3]

(* re.fullmatch(r"[A-Z]{3}", s) and re.fullmatch(r"[A-Z]{2}", s) *)
IsAlpha3Shape(s) == Len(s) = 3 /\ \A i \in 1..3 : IsUpper(s[i])
IsAlpha2Shape(s) == Len(s) = 2 /\ \A i \in 1..2 : IsUpper(s[i])

(* a membership test alone: no trimming, no upper-casing, no alpha-2 table *)
MemberCode(code) == IF code \in COUNTRY_CODE_TO_INFO THEN Some(code) ELSE None

normalize_country_code(code) ==
    IF code = <<>> THEN None
    ELSE LET candidate == Upper(Strip(code))
         IN IF candidate = <<>> THEN None
            ELSE IF IsAlpha3Shape(candidate) /\ candidate \in COUNTRY_CODE_TO_INFO
                 THEN Some(candidate)
            ELSE IF IsAlpha2Shape(candidate) /\ candidate \in DOMAIN ISO2_TO_ISO3
                 THEN Some(ISO2_TO_ISO3[candidate])
            ELSE None

(* the first keyword of COUNTRY_KEYWORD_MATCHES found in normalized *)
KeywordMatch(normalized) ==
    LET hits == {i \in 1..Len(COUNTRY_KEYWORD_MATCHES) :
                    ContainsText(normalized, COUNTRY_KEYWORD_MATCHES[i][1])}
    IN IF hits = {} THEN None
       ELSE Some(COUNTRY_KEYWORD_MATCHES[CHOOSE i \in hits : \A k \in hits : i <= k][2])

(* the keyword scan consulted before the table *)
KeywordsBeforeTable(name) ==
    LET normalized == normalize_country_lookup_value(name)
        keyword_code == KeywordMatch(normalized)
    IN IF normalized = <<>> THEN None
       ELSE IF ~IsNone(keyword_code) THEN keyword_code
       ELSE IF normalized \in DOMAIN COUNTRY_NAME_TO_CODE
            THEN Some(COUNTRY_NAME_TO_CODE[normalized])
       ELSE None

lookup_country_code(name) ==
    LET normalized == normalize_country_lookup_value(name)
    IN IF normalized = <<>> THEN None
       ELSE IF normalized \in DOMAIN COUNTRY_NAME_TO_CODE
            THEN Some(COUNTRY_NAME_TO_CODE[normalized])
       ELSE KeywordMatch(normalized)

get_country_display_name(code) ==
    IF Upper(code) \in COUNTRY_CODE_TO_INFO
    THEN Some(COUNTRY_CODE_DATA[CHOOSE i \in 1..Len(COUNTRY_CODE_DATA) :
                                    COUNTRY_CODE_DATA[i].iso3 = Upper(code)].name)
    ELSE None

(* ISO_CODE_IN_TEXT_PATTERN.findall(text): the words of three capital
   letters, left to right *)
RECURSIVE IsoWordsFrom(_, _)
IsoWordsFrom(text, i) ==
    IF i + 2 > Len(text) THEN <<>>
    ELSE IF /\ WordBoundary(text, i)
            /\ IsAlpha3Shape(SubSeq(text, i, i + 2))
            /\ WordBoundary(text, i + 3)
         THEN <<SubSeq(text, i, i + 2)>> \o IsoWordsFrom(text, i + 3)
         ELSE IsoWordsFrom(text, i + 1)

IsoWordsInText(text) == IsoWordsFrom(text, 1)

(* re.search(r"\(([A-Z]{3})\)", text): group 1 of the first match *)
ParenCodeInText(text) ==
    LET hits == {i \in 1..Len(text) :
                    /\ i + 4 <= Len(text)
                    /\ text[i] = "(" /\ text[i + 4] = ")"
                    /\ IsAlpha3Shape(SubSeq(text, i + 1, i + 3))}
    IN IF hits = {} THEN None
       ELSE LET i == CHOOSE h \in hits : \A k \in hits : h <= k
            IN Some(SubSeq(text, i + 1, i + 3))

(* re.search(rf"\b{code}\b", text) *)
HasWholeWord(text, code) ==
    \E i \in 1..Len(text) :
        MatchesAt(text, i, code) /\ WordBoundary(text, i) /\ WordBoundary(text, i + Len(code))

(* ----------------------------- video catalog --------------------------- *)
EmptyDataset == [entries |-> <<>>, by_code |-> <<>>, by_normalized_name |-> <<>>]

(* dicts are functions; d.get(k) *)
DictGet(d, k) == IF k \in DOMAIN d THEN Some(d[k]) ELSE None
DictSetDefault(d, k, x) ==
    IF k \in DOMAIN d THEN d
    ELSE [y \in (DOMAIN d) \cup {k} |-> IF y = k THEN x ELSE d[y]]
DictPut(d, k, x) == [y \in (DOMAIN d) \cup {k} |-> IF y = k THEN x ELSE d[y]]

(* first c of the three-letter words that is in COUNTRY_CODE_TO_INFO *)
FirstKnownCode(words) ==
    LET hits == {i \in 1..Len(words) : words[i] \in COUNTRY_CODE_TO_INFO}
    IN IF hits = {} THEN None
       ELSE Some(words[CHOOSE i \in hits : \A k \in hits : i <= k])

(* first hit, if any, of a sequence of optional values *)
RECURSIVE FirstSome(_)
FirstSome(opts) ==
    IF opts = <<>> THEN None
    ELSE IF ~IsNone(Head(opts)) THEN Head(opts) ELSE FirstSome(Tail(opts))

(* display_team or cleaned_team or team_text *)
TeamName(team_text) ==
    LET cleaned_team == strip_leading_flag_emoji(team_text)
        display_team == _strip_country_name_noise(cleaned_team)
    IN IF display_team # <<>> THEN display_team
       ELSE IF cleaned_team # <<>> THEN cleaned_team
       ELSE team_text

(* the VideoEntry built from one catalog row *)
RowEntry(row, row_index) ==
    [team_name |-> TeamName(row.team_text),
     normalized_name |-> normalize_country_lookup_value(row.team_text),
     value |-> row.value,
     row_index |-> row_index]

(* name_index[key] = entry for a non-empty key *)
IndexNameLastWins(by_normalized_name, key, entry) ==
    IF key # <<>> THEN DictPut(by_normalized_name, key, entry) ELSE by_normalized_name

(* name_index.setdefault(key, entry) for a non-empty key *)
IndexName(by_normalized_name, key, entry) ==
    IF key # <<>> THEN DictSetDefault(by_normalized_name, key, entry) ELSE by_normalized_name

(* the bracketed code of team_text when it is in the enumeration *)
ParenCandidate(team_text) ==
    LET paren_match == ParenCodeInText(team_text)
    IN IF ~IsNone(paren_match) /\ Upper(Get(paren_match)) \in COUNTRY_CODE_TO_INFO
       THEN Some(Upper(Get(paren_match))) ELSE None

(* iso_candidate: bracketed code, else first known three-letter word of the
   upper-cased text, else the name table *)
IsoCandidate(team_text) ==
    LET paren == ParenCandidate(team_text)
    IN IF ~IsNone(paren) THEN paren
       ELSE LET word == FirstKnownCode(IsoWordsInText(Upper(team_text)))
            IN IF ~IsNone(word) THEN word ELSE lookup_country_code(team_text)

(* code_index.setdefault(iso_candidate, entry) when there is a candidate *)
IndexCode(by_code, iso_candidate, entry) ==
    IF ~IsNone(iso_candidate) THEN DictSetDefault(by_code, Get(iso_candidate), entry)
    ELSE by_code

(* one catalog row of extract_video_dataset_from_spreadsheet: the entry is
   appended and entered in both indexes unless its key is already there *)
IngestEntry(catalog, team_text, entry) ==
    [entries |-> Append(catalog.entries, entry),
     by_normalized_name |->
         IndexName(IndexName(catalog.by_normalized_name,
                             normalize_country_lookup_value(team_text), entry),
                   _normalize_country_name(strip_leading_flag_emoji(team_text)), entry),
     by_code |-> IndexCode(catalog.by_code, IsoCandidate(team_text), entry)]

(* the rows of the sheet, in row order *)
RECURSIVE IngestRows(_)
IngestRows(rows) ==
    IF rows = <<>> THEN EmptyDataset
    ELSE IngestEntry(IngestRows(SubSeq(rows, 1, Len(rows) - 1)), rows[Len(rows)].team_text,
                     RowEntry(rows[Len(rows)], Len(rows)))

(* dataset.by_normalized_name.get(normalized) for a non-empty key *)
LookupName(dataset, normalized) ==
    IF normalized = <<>> THEN None ELSE DictGet(dataset.by_normalized_name, normalized)

(* normalized_variants of one candidate name *)
NormalizedVariants(name) ==
    << normalize_country_lookup_value(name),
       _normalize_country_name(strip_leading_flag_emoji(name)) >>

(* candidate_names: the display name, if any, then the aliases *)
CandidateNames(code) == get_country_display_name(code) \o ADDITIONAL_COUNTRY_ALIASES(code)

(* the keys find_video_entry_for_code tries for a code of the enumeration,
   in the order it tries them *)
RECURSIVE ConcatAll(_)
ConcatAll(seqs) == IF seqs = <<>> THEN <<>> ELSE Head(seqs) \o ConcatAll(Tail(seqs))

CandidateKeys ==
    [code \in COUNTRY_CODE_TO_INFO |->
        ConcatAll([i \in 1..Len(CandidateNames(code)) |->
                      NormalizedVariants(CandidateNames(code)[i])])]

(* for name in candidate_names: for normalized in normalized_variants *)
EntryByNames(dataset, code) ==
    IF code \in COUNTRY_CODE_TO_INFO
    THEN FirstSome([i \in 1..Len(CandidateKeys[code]) |->
                       LookupName(dataset, CandidateKeys[code][i])])
    ELSE None

(* for entry in dataset.entries: the code as a whole word of the upper-cased
   team name *)
EntryByWord(dataset, code) ==
    LET hits == {i \in 1..Len(dataset.entries) :
                    HasWholeWord(Upper(dataset.entries[i].team_name), code)}
    IN IF hits = {} THEN None
       ELSE Some(dataset.entries[CHOOSE i \in hits : \A k \in hits : i <= k])

(* the name index asked before the identity index *)
FindByNamesFirst(code, dataset) ==
    LET named == EntryByNames(dataset, Upper(code))
    IN IF ~IsNone(named) THEN named
       ELSE LET entry == DictGet(dataset.by_code, Upper(code))
            IN IF ~IsNone(entry) THEN entry ELSE EntryByWord(dataset, Upper(code))

find_video_entry_for_code(code, dataset) ==
    LET entry == DictGet(dataset.by_code, Upper(code))
    IN IF ~IsNone(entry) THEN entry
       ELSE LET named == EntryByNames(dataset, Upper(code))
            IN IF ~IsNone(named) THEN named ELSE EntryByWord(dataset, Upper(code))

(* ------------------------------ numbers -------------------------------- *)
Num(h, v, e) == [inf |-> FALSE, h |-> h, v |-> v, e |-> e]
NumZero == Num(0, 0, 0)
MathInf == [inf |-> TRUE, h |-> 0, v |-> 0, e |-> 0]

(* a + b and a - b for a finite b; math.inf stays math.inf *)
NumAdd(a, b) == IF a.inf THEN a ELSE Num(a.h + b.h, a.v + b.v, a.e + b.e)
NumSub(a, b) == IF a.inf THEN a ELSE Num(a.h - b.h, a.v - b.v, a.e - b.e)

(* a < b *)
NumLess(a, b) ==
    IF a.inf THEN FALSE
    ELSE IF b.inf THEN TRUE
    ELSE \/ a.h < b.h
         \/ a.h = b.h /\ a.v < b.v
         \/ a.h = b.h /\ a.v = b.v /\ a.e < b.e

(* inf_cost = 1e12 and duplicate_trigger_cost = 1e11, in units of 1e11 *)
InfCostUnits == 10
DuplicateTriggerUnits == 1
inf_cost == Num(InfCostUnits, 0, 0)
duplicate_trigger_cost == Num(DuplicateTriggerUnits, 0, 0)

(* ------------------------- _hungarian_algorithm ------------------------ *)
(* cols < rows: raise ValueError *)
HungarianRaises(cost_matrix) ==
    /\ Len(cost_matrix) > 0
    /\ Len(cost_matrix[1]) < Len(cost_matrix)

(* if cur < minv[j]: minv[j] = cur; way[j] = j0 *)
RelaxColumn(st, j, cur) ==
    IF NumLess(cur, st.minv[j]) THEN [st EXCEPT !.minv[j] = cur, !.way[j] = st.j0] ELSE st

(* fault variant of AdvanceColumn: j0 is left where it is *)
StayOnColumn(st) == st

(* fault variant of TrackDelta: the last column in reach is taken, not the
   nearest *)
TrackLastColumn(st, j) ==
    IF st.minv[j].inf THEN st ELSE [st EXCEPT !.delta = st.minv[j], !.j1 = j]

(* if minv[j] < delta: delta = minv[j]; j1 = j *)
TrackDelta(st, j) ==
    IF NumLess(st.minv[j], st.delta) THEN [st EXCEPT !.delta = st.minv[j], !.j1 = j] ELSE st

(* for j in range(1, cols + 1): the scan of the unused columns *)
RECURSIVE ScanColumns(_, _, _, _, _)
ScanColumns(cost_matrix, st, i0, j, cols) ==
    IF j > cols THEN st
    ELSE IF st.used[j] THEN ScanColumns(cost_matrix, st, i0, j + 1, cols)
    ELSE ScanColumns(cost_matrix,
                     TrackDelta(RelaxColumn(st, j, NumSub(NumSub(cost_matrix[i0][j], st.u[i0]),
                                                          st.v[j])), j),
                     i0, j + 1, cols)

(* for j in range(cols + 1): shift the potentials by delta *)
RECURSIVE UpdatePotentials(_, _, _)
UpdatePotentials(st, j, cols) ==
    IF j > cols THEN st
    ELSE UpdatePotentials(
             IF st.used[j]
             THEN [st EXCEPT !.u[st.p[j]] = NumAdd(@, st.delta),
                             !.v[j] = NumSub(@, st.delta)]
             ELSE [st EXCEPT !.minv[j] = NumSub(@, st.delta)],
             j + 1, cols)

(* j0 = j1 *)
AdvanceColumn(st) == [st EXCEPT !.j0 = st.j1]

(* the first `while True`: grow the alternating tree until a free column;
   the loop is left after the scan when no unused column is in reach *)
RECURSIVE SearchPath(_, _, _)
SearchFrom(cost_matrix, st, cols) ==
    IF st.p[st.j0] = 0 THEN st ELSE SearchPath(cost_matrix, st, cols)

AfterScan(cost_matrix, st, cols) ==
    IF st.delta.inf THEN st
    ELSE SearchFrom(cost_matrix, AdvanceColumn(UpdatePotentials(st, 0, cols)), cols)

SearchPath(cost_matrix, st, cols) ==
    AfterScan(cost_matrix,
              ScanColumns(cost_matrix,
                          [st EXCEPT !.used[st.j0] = TRUE, !.delta = MathInf, !.j1 = 0],
                          st.p[st.j0], 1, cols),
              cols)

(* j1 = way[j0]; p[j0] = p[j1]; j0 = j1 *)
AugmentStep(st, j1) == [st EXCEPT !.p[st.j0] = st.p[j1], !.j0 = j1]

(* the second `while True`: flip the matching along the path *)
RECURSIVE Augment(_)
Augment(st) ==
    IF st.way[st.j0] = 0 THEN AugmentStep(st, 0)
    ELSE Augment(AugmentStep(st, st.way[st.j0]))

(* for i in range(1, rows + 1) *)
RECURSIVE HungarianRows(_, _, _, _, _)
HungarianRows(cost_matrix, st, i, rows, cols) ==
    IF i > rows THEN st
    ELSE HungarianRows(cost_matrix,
                       Augment(SearchPath(cost_matrix,
                                          [st EXCEPT !.p[0] = i,
                                                     !.minv = [j \in 0..cols |-> MathInf],
                                                     !.used = [j \in 0..cols |-> FALSE],
                                                     !.j0 = 0],
                                          cols)),
                       i + 1, rows, cols)

(* u, v, p, way before the first row *)
HungarianStart(rows, cols) ==
    [u |-> [i \in 0..rows |-> NumZero],
     v |-> [j \in 0..cols |-> NumZero],
     p |-> [j \in 0..cols |-> 0],
     way |-> [j \in 0..cols |-> 0],
     minv |-> [j \in 0..cols |-> MathInf],
     used |-> [j \in 0..cols |-> FALSE],
     delta |-> MathInf, j0 |-> 0, j1 |-> 0]

(* fault variant of HungarianAssignment: assignment[j - 1] = p[j] - 1, rows
   and columns taken for each other *)
HungarianAssignmentByColumn(p, rows, cols) == [r \in 1..rows |-> p[r] - 1]

(* assignment[p[j] - 1] = j - 1 for j in range(1, cols + 1): per row the
   0-based column, -1 for a row no column points to *)
HungarianAssignment(p, rows, cols) ==
    [r \in 1..rows |->
        IF \A j \in 1..cols : p[j] # r THEN -1
        ELSE (CHOOSE j \in 1..cols : p[j] = r /\ \A k \in 1..cols : p[k] = r => k <= j) - 1]

(* fault variant of _hungarian_algorithm: every row takes its cheapest
   column, the first of equal ones, whether or not another row has it *)
GreedyRows(cost_matrix) ==
    [r \in 1..Len(cost_matrix) |->
        (CHOOSE j \in 1..Len(cost_matrix[r]) :
            \A k \in 1..Len(cost_matrix[r]) :
                /\ ~NumLess(cost_matrix[r][k], cost_matrix[r][j])
                /\ (k < j => NumLess(cost_matrix[r][j], cost_matrix[r][k]))) - 1]

(* the list returned for a matrix with cols >= rows *)
_hungarian_algorithm(cost_matrix) ==
    IF Len(cost_matrix) = 0 THEN <<>>
    ELSE HungarianAssignment(
             HungarianRows(cost_matrix,
                           HungarianStart(Len(cost_matrix), Len(cost_matrix[1])),
                           1, Len(cost_matrix), Len(cost_matrix[1])).p,
             Len(cost_matrix), Len(cost_matrix[1]))

(* -------------------- compute_team_video_assignments ------------------- *)
(* a diagnostic string: its template and the values formatted into it *)
Diag(kind, match, sheet, codes, nums) ==
    [kind |-> kind, match |-> match, sheet |-> sheet, codes |-> codes, nums |-> nums]

(* a console line: level, template and the values formatted into it *)
Log(level, kind, match, codes) ==
    [level |-> level, kind |-> kind, match |-> match, codes |-> codes]

(* one iteration of `for code in countries` *)
NormalizeCountry(rest, code, iso3_code) ==
    IF ~IsNone(iso3_code)
    THEN [rest EXCEPT !.normalized_codes = Append(@, Get(iso3_code))]
    ELSE [rest EXCEPT !.unresolved_codes = Append(@, code)]

(* for code in countries: split into normalized and unresolved *)
RECURSIVE NormalizeCountries(_)
NormalizeCountries(countries) ==
    IF countries = <<>> THEN [normalized_codes |-> <<>>, unresolved_codes |-> <<>>]
    ELSE NormalizeCountry(NormalizeCountries(SubSeq(countries, 1, Len(countries) - 1)),
                          countries[Len(countries)],
                          normalize_country_code(countries[Len(countries)]))

(* one iteration of `for code in normalized_codes` *)
ClassifyCode(rest, code, entry) ==
    IF IsNone(entry) THEN [rest EXCEPT !.missing_entries = Append(@, code)]
    ELSE IF IsNone(Get(entry).value) THEN [rest EXCEPT !.missing_value_codes = Append(@, code)]
    ELSE [rest EXCEPT !.valid_codes = Append(@, code)]

(* for code in normalized_codes: valid, missing entry, missing value *)
RECURSIVE ClassifyCodes(_, _)
ClassifyCodes(normalized_codes, dataset) ==
    IF normalized_codes = <<>>
    THEN [valid_codes |-> <<>>, missing_entries |-> <<>>, missing_value_codes |-> <<>>]
    ELSE ClassifyCode(ClassifyCodes(SubSeq(normalized_codes, 1, Len(normalized_codes) - 1),
                                    dataset),
                      normalized_codes[Len(normalized_codes)],
                      find_video_entry_for_code(normalized_codes[Len(normalized_codes)],
                                                dataset))

AppendIf(cond, s, x) == IF cond THEN Append(s, x) ELSE s

(* match_countries.get(slot.match_number, []) *)
SlotCountries(slot, match_countries) ==
    IF slot.match_number \in DOMAIN match_countries
    THEN match_countries[slot.match_number] ELSE <<>>

MatchKey(slot) == <<slot.sheet_title, slot.match_number>>

(* a diagnostic that names the slot's match and sheet *)
SlotDiag(kind, slot) == Diag(kind, slot.match_number, slot.sheet_title, {}, <<>>)

(* fault variant of NoteUnresolved: unresolved_logged is not consulted *)
NoteUnresolvedEverySlot(acc, slot, unresolved_codes) ==
    IF unresolved_codes # <<>>
    THEN [acc EXCEPT !.diagnostics = Append(@, Diag("unrecognized_codes", slot.match_number,
                                                    "", Range(unresolved_codes), <<>>)),
                     !.unresolved_logged = @ \cup {MatchKey(slot)}]
    ELSE acc

(* if unresolved_codes and match_key not in unresolved_logged *)
NoteUnresolved(acc, slot, unresolved_codes) ==
    IF unresolved_codes # <<>> /\ MatchKey(slot) \notin acc.unresolved_logged
    THEN [acc EXCEPT !.diagnostics = Append(@, Diag("unrecognized_codes", slot.match_number,
                                                    "", Range(unresolved_codes), <<>>)),
                     !.unresolved_logged = @ \cup {MatchKey(slot)}]
    ELSE acc

(* if match_key not in logged_matches *)
NoteSchedule(acc, slot, normalized_codes, console) ==
    IF MatchKey(slot) \notin acc.logged_matches
    THEN [acc EXCEPT !.console_log = AppendIf(console, @,
                         Log("info", "schedule_countries", slot.match_number,
                             Range(normalized_codes))),
                     !.logged_matches = @ \cup {MatchKey(slot)}]
    ELSE acc

(* if missing_entries *)
NoteMissingEntries(acc, slot, missing_entries, console) ==
    IF missing_entries = <<>> THEN acc
    ELSE [acc EXCEPT !.diagnostics = AppendIf(MatchKey(slot) \notin acc.missing_logged, @,
                         Diag("no_videos_found", slot.match_number, "",
                              Range(missing_entries), <<>>)),
                     !.missing_logged = @ \cup {MatchKey(slot)},
                     !.console_log = AppendIf(console, @,
                         Log("info", "missing_videos", slot.match_number,
                             Range(missing_entries)))]

(* if missing_value_codes *)
NoteMissingValues(acc, slot, missing_value_codes, console) ==
    IF missing_value_codes = <<>> THEN acc
    ELSE [acc EXCEPT !.diagnostics = Append(@,
                         Diag("lack_value_scores", slot.match_number, "",
                              Range(missing_value_codes), <<>>)),
                     !.console_log = AppendIf(console, @,
                         Log("info", "ignored_without_value", slot.match_number,
                             Range(missing_value_codes)))]

(* `if not valid_codes: ... continue`, then the missing-value note and the
   append to slot_candidates *)
AcceptSlot(acc, slot, cls, console) ==
    IF cls.valid_codes = <<>>
    THEN [acc EXCEPT !.diagnostics = Append(@, SlotDiag("no_assignable", slot))]
    ELSE [NoteMissingValues(acc, slot, cls.missing_value_codes, console)
              EXCEPT !.slot_candidates = Append(@, [slot |-> slot, codes |-> cls.valid_codes])]

(* the classification of the normalized codes and what follows it *)
ClassifySlot(acc, slot, cls, console) ==
    AcceptSlot(NoteMissingEntries(acc, slot, cls.missing_entries, console), slot, cls, console)

(* `if not normalized_codes: ... continue`, then the rest of the iteration *)
ResolveSlot(acc, slot, normalized_codes, dataset, console) ==
    IF normalized_codes = <<>>
    THEN [acc EXCEPT !.diagnostics = Append(@, SlotDiag("none_normalized", slot))]
    ELSE ClassifySlot(NoteSchedule(acc, slot, normalized_codes, console), slot,
                      ClassifyCodes(normalized_codes, dataset), console)

(* the iteration from the normalization loop on *)
NormalizeSlot(acc, slot, split, dataset, console) ==
    ResolveSlot(NoteUnresolved(acc, slot, split.unresolved_codes), slot,
                DictFromKeys(split.normalized_codes), dataset, console)

(* fault variant of FilterSlot: no `continue` after the missing-data diagnostic *)
FilterSlotNoSkip(acc, slot, countries, dataset, console) ==
    NormalizeSlot(IF countries = <<>>
                  THEN [acc EXCEPT !.diagnostics =
                            Append(@, SlotDiag("missing_country_data", slot))]
                  ELSE acc,
                  slot, NormalizeCountries(countries), dataset, console)

(* one iteration of `for slot in slots` *)
FilterSlot(acc, slot, countries, dataset, console) ==
    IF countries = <<>>
    THEN [acc EXCEPT !.diagnostics = Append(@, SlotDiag("missing_country_data", slot))]
    ELSE NormalizeSlot(acc, slot, NormalizeCountries(countries), dataset, console)

RECURSIVE FilterSlots(_, _, _, _)
FilterSlots(slots, match_countries, dataset, console) ==
    IF slots = <<>>
    THEN [diagnostics |-> <<>>, slot_candidates |-> <<>>, console_log |-> <<>>,
          logged_matches |-> {}, unresolved_logged |-> {}, missing_logged |-> {}]
    ELSE FilterSlot(FilterSlots(SubSeq(slots, 1, Len(slots) - 1),
                                match_countries, dataset, console),
                    slots[Len(slots)],
                    SlotCountries(slots[Len(slots)], match_countries),
                    dataset, console)

(* sorted({code for _, codes in slot_candidates for code in codes}) *)
UniqueCodes(slot_candidates) ==
    SelectSeq(CodeOrder,
              LAMBDA c : \E i \in 1..Len(slot_candidates) : Contains(slot_candidates[i].codes, c))

(* fault variant of PadColumns: the column list is not extended *)
PadColumnsNone(unique_codes, rows) ==
    [j \in 1..Len(unique_codes) |-> Some(unique_codes[j])]

(* list(unique_codes), extended with None up to the number of rows *)
PadColumns(unique_codes, rows) ==
    [j \in 1..Len(unique_codes) |-> Some(unique_codes[j])]
    \o (IF Len(unique_codes) < rows THEN [j \in 1..(rows - Len(unique_codes)) |-> None]
        ELSE <<>>)

ColumnCodes(slot_candidates) == PadColumns(UniqueCodes(slot_candidates), Len(slot_candidates))

(* fault variant of EntryCost: the video's value is left out of the cost *)
EntryCostIndexOnly(entry, slot) ==
    IF IsNone(entry) \/ IsNone(Get(entry).value) THEN inf_cost
    ELSE Num(0, 0, slot.placeholder_index)

(* fault variant of EntryCost: the test on the value is inverted *)
EntryCostInverted(entry, slot) ==
    IF IsNone(entry) \/ ~IsNone(Get(entry).value) THEN inf_cost
    ELSE Num(0, 0, slot.placeholder_index)

(* value + slot.placeholder_index * 1e-6, or inf_cost without a valued entry *)
EntryCost(entry, slot) ==
    IF IsNone(entry) \/ IsNone(Get(entry).value) THEN inf_cost
    ELSE Num(0, Get(Get(entry).value), slot.placeholder_index)

(* fault variant of CellCost: `elif column_code in codes` is not tested *)
CellCostAnyColumn(slot, codes, column_code, dataset) ==
    IF IsNone(column_code)
    THEN NumAdd(duplicate_trigger_cost, Num(0, 0, slot.placeholder_index))
    ELSE EntryCost(find_video_entry_for_code(Get(column_code), dataset), slot)

(* one cell of the cost matrix *)
CellCost(slot, codes, column_code, dataset) ==
    IF IsNone(column_code)
    THEN NumAdd(duplicate_trigger_cost, Num(0, 0, slot.placeholder_index))
    ELSE IF Contains(codes, Get(column_code))
    THEN EntryCost(find_video_entry_for_code(Get(column_code), dataset), slot)
    ELSE inf_cost

CostMatrix(slot_candidates, column_codes, dataset) ==
    [i \in 1..Len(slot_candidates) |->
        [j \in 1..Len(column_codes) |->
            CellCost(slot_candidates[i].slot, slot_candidates[i].codes, column_codes[j], dataset)]]

(* the shortfall diagnostics added before the matrix is built *)
Shortfall(placeholders, unique) ==
    IF unique < placeholders
    THEN << Diag("placeholders_reached", 0, "", {}, <<placeholders, unique>>),
            Diag("duplicates_may_be_required", 0, "", {}, <<>>) >>
    ELSE <<>>

ShortfallDiagnostics(slot_candidates) ==
    Shortfall(Len(slot_candidates), Len(UniqueCodes(slot_candidates)))

(* assigned_counts.get(code, 0) *)
CountOf(assigned_counts, code) ==
    IF code \in DOMAIN assigned_counts THEN assigned_counts[code] ELSE 0

(* unmatched_indices.append(row_index); continue *)
Unmatched(acc, row_index) == [acc EXCEPT !.unmatched_indices = Append(@, row_index)]

(* the same after a diagnostic *)
UnmatchedWith(acc, row_index, diag) ==
    [acc EXCEPT !.unmatched_indices = Append(@, row_index),
                !.diagnostics = Append(@, diag)]

(* the checks on the entry and on assigned_counts, then the assignment *)
AcceptColumn(acc, row_index, slot, code, entry) ==
    IF IsNone(entry) \/ IsNone(Get(entry).value) THEN Unmatched(acc, row_index)
    ELSE IF CountOf(acc.assigned_counts, code) > 0 THEN Unmatched(acc, row_index)
    ELSE [acc EXCEPT !.assigned_counts = DictPut(@, code, CountOf(@, code) + 1),
                     !.results_by_index = DictPut(@, row_index,
                         [slot |-> slot, country_code |-> code, video |-> Get(entry)])]

(* the checks on the cost and on the column's code *)
CheckColumn(acc, row_index, slot, cost, code, dataset) ==
    IF ~NumLess(cost, inf_cost)
    THEN UnmatchedWith(acc, row_index, SlotDiag("no_valid_assignment", slot))
    ELSE IF IsNone(code) THEN Unmatched(acc, row_index)
    ELSE AcceptColumn(acc, row_index, slot, Get(code),
                      find_video_entry_for_code(Get(code), dataset))

(* one iteration of the first pass over the solver's result *)
FirstPassRow(acc, row_index, slot, column_codes, cost_row, column_index, dataset) ==
    IF column_index < 0 \/ column_index >= Len(column_codes)
    THEN UnmatchedWith(acc, row_index, SlotDiag("no_available_country", slot))
    ELSE CheckColumn(acc, row_index, slot, cost_row[column_index + 1],
                     column_codes[column_index + 1], dataset)

(* assignments[row_index] if row_index < len(assignments) else -1 *)
ColumnIndex(assignments, row_index) ==
    IF row_index <= Len(assignments) THEN assignments[row_index] ELSE -1

RECURSIVE FirstPass(_, _, _, _, _, _, _)
FirstPass(acc, n, slot_candidates, column_codes, cost_matrix, assignments, dataset) ==
    IF n = 0 THEN acc
    ELSE FirstPassRow(FirstPass(acc, n - 1, slot_candidates, column_codes, cost_matrix,
                                assignments, dataset),
                      n, slot_candidates[n].slot, column_codes, cost_matrix[n],
                      ColumnIndex(assignments, n), dataset)

(* the sort key (assigned_count, value, code) of the fallback *)
FallbackKeyLess(a, b) ==
    \/ a.assigned_count < b.assigned_count
    \/ a.assigned_count = b.assigned_count /\ a.value < b.value
    \/ a.assigned_count = b.assigned_count /\ a.value = b.value /\ CodeLess(a.code, b.code)

(* fault variant of CandidateEntry: a code already assigned is skipped *)
CandidateEntrySkipUsed(rest, code, entry, assigned_counts) ==
    IF IsNone(entry) \/ IsNone(Get(entry).value) \/ CountOf(assigned_counts, code) > 0
    THEN rest
    ELSE Append(rest, [assigned_count |-> CountOf(assigned_counts, code),
                       value |-> Get(Get(entry).value),
                       code |-> code, entry |-> Get(entry)])

(* one iteration of `for code in codes` *)
CandidateEntry(rest, code, entry, assigned_counts) ==
    IF IsNone(entry) \/ IsNone(Get(entry).value) THEN rest
    ELSE Append(rest, [assigned_count |-> CountOf(assigned_counts, code),
                       value |-> Get(Get(entry).value),
                       code |-> code, entry |-> Get(entry)])

(* candidate_entries of one unmatched row *)
RECURSIVE CandidateEntries(_, _, _)
CandidateEntries(codes, assigned_counts, dataset) ==
    IF codes = <<>> THEN <<>>
    ELSE CandidateEntry(CandidateEntries(SubSeq(codes, 1, Len(codes) - 1), assigned_counts,
                                         dataset),
                        codes[Len(codes)],
                        find_video_entry_for_code(codes[Len(codes)], dataset),
                        assigned_counts)

(* candidate_entries.sort(key=...)[0]: the sort is stable *)
FirstSorted(candidate_entries) ==
    candidate_entries[CHOOSE i \in 1..Len(candidate_entries) :
        \A k \in 1..Len(candidate_entries) :
            /\ ~FallbackKeyLess(candidate_entries[k], candidate_entries[i])
            /\ (k < i => FallbackKeyLess(candidate_entries[i], candidate_entries[k]))]

(* fault variant of AssignBest: assigned_counts is left as it is *)
AssignBestUncounted(acc, row_index, slot, best) ==
    [acc EXCEPT
        !.duplicate_messages =
            AppendIf(best.assigned_count > 0, @,
                     Diag("duplicate_assignment", slot.match_number, "", {best.code}, <<>>)),
        !.results_by_index = DictPut(@, row_index,
            [slot |-> slot, country_code |-> best.code, video |-> best.entry])]

(* the assignment of the first candidate, with its duplicate message *)
AssignBest(acc, row_index, slot, best) ==
    [acc EXCEPT
        !.assigned_counts = DictPut(@, best.code, best.assigned_count + 1),
        !.duplicate_messages =
            AppendIf(best.assigned_count > 0, @,
                     Diag("duplicate_assignment", slot.match_number, "", {best.code}, <<>>)),
        !.results_by_index = DictPut(@, row_index,
            [slot |-> slot, country_code |-> best.code, video |-> best.entry])]

(* one iteration of `for row_index in unmatched_indices` *)
FallbackRow(acc, row_index, slot, candidate_entries) ==
    IF candidate_entries = <<>>
    THEN [acc EXCEPT !.diagnostics = Append(@, SlotDiag("unable_even_with_duplicates", slot))]
    ELSE AssignBest(acc, row_index, slot, FirstSorted(candidate_entries))

(* the row's candidates under the counts reached so far *)
FallbackStep(acc, row_index, slot_candidates, dataset) ==
    FallbackRow(acc, row_index, slot_candidates[row_index].slot,
                CandidateEntries(slot_candidates[row_index].codes, acc.assigned_counts,
                                 dataset))

RECURSIVE Fallback(_, _, _, _)
Fallback(acc, unmatched_indices, slot_candidates, dataset) ==
    IF unmatched_indices = <<>> THEN acc
    ELSE FallbackStep(Fallback(acc, SubSeq(unmatched_indices, 1, Len(unmatched_indices) - 1),
                               slot_candidates, dataset),
                      unmatched_indices[Len(unmatched_indices)], slot_candidates, dataset)

(* str(n) + ".": the decimal digits of a match number and the full stop that
   follows it in a message; "." sorts before every digit *)
FullStop == -1
RECURSIVE DecimalDigits(_)
DecimalDigits(n) == IF n < 10 THEN <<n>> ELSE Append(DecimalDigits(n \div 10), n % 10)

RECURSIVE LexLess(_, _)
LexLess(a, b) ==
    IF b = <<>> THEN FALSE
    ELSE IF a = <<>> THEN TRUE
    ELSE IF Head(a) # Head(b) THEN Head(a) < Head(b)
    ELSE LexLess(Tail(a), Tail(b))

MessageCode(m) == CHOOSE c \in m.codes : TRUE

(* string order of two "Duplicate assignment: country C reused for match #N." *)
DuplicateMessageLess(a, b) ==
    \/ CodeLess(MessageCode(a), MessageCode(b))
    \/ /\ MessageCode(a) = MessageCode(b)
       /\ LexLess(Append(DecimalDigits(a.match), FullStop),
                  Append(DecimalDigits(b.match), FullStop))

(* the position of the least message, the first of equal ones *)
LeastMessage(msgs) ==
    CHOOSE i \in 1..Len(msgs) :
        \A k \in 1..Len(msgs) :
            /\ ~DuplicateMessageLess(msgs[k], msgs[i])
            /\ (k < i => DuplicateMessageLess(msgs[i], msgs[k]))

(* the least message of a set of distinct messages *)
LeastOf(S) == CHOOSE m \in S : \A k \in S : ~DuplicateMessageLess(k, m)

(* fault variant of SortedMessages: sorted(set(duplicate_messages)) *)
RECURSIVE SortedSet(_)
SortedSet(S) ==
    IF S = {} THEN <<>>
    ELSE <<LeastOf(S)>> \o SortedSet(S \ {LeastOf(S)})

SortedMessageSet(msgs) == SortedSet(Range(msgs))

(* sorted(duplicate_messages) *)
RECURSIVE SortedMessages(_)
SortedFrom(msgs, i) ==
    <<msgs[i]>> \o SortedMessages(SubSeq(msgs, 1, i - 1) \o SubSeq(msgs, i + 1, Len(msgs)))

SortedMessages(msgs) == IF msgs = <<>> THEN <<>> ELSE SortedFrom(msgs, LeastMessage(msgs))

(* ordered_results: the assignments in row order *)
RECURSIVE OrderedResults(_, _)
OrderedResults(results_by_index, n) ==
    IF n = 0 THEN <<>>
    ELSE IF n \in DOMAIN results_by_index
    THEN Append(OrderedResults(results_by_index, n - 1), results_by_index[n])
    ELSE OrderedResults(results_by_index, n - 1)

(* sorted codes of duplicate_codes: bound to more than one slot *)
DuplicateCodes(ordered) ==
    SelectSeq(CodeOrder, LAMBDA c :
        Cardinality({i \in 1..Len(ordered) : ordered[i].country_code = c}) > 1)

(* one console warning per duplicated code *)
WarningLines(codes) ==
    [k \in 1..Len(codes) |-> Log("warn", "duplicate_video_required", 0, {codes[k]})]

DuplicateWarnings(ordered) == WarningLines(DuplicateCodes(ordered))

(* the console lines written between the filter and the matrix *)
CandidateLogLines(slot_candidates) ==
    <<Log("info", "slot_candidates_header", 0, {})>>
    \o [i \in 1..Len(slot_candidates) |->
           Log("info", "slot_candidates", slot_candidates[i].slot.match_number,
               Range(slot_candidates[i].codes))]
    \o <<Log("info", "unique_country_videos", 0, Range(UniqueCodes(slot_candidates)))>>

(* results_by_index, unmatched_indices, assigned_counts before the first pass *)
FirstPassStart(diagnostics) ==
    [diagnostics |-> diagnostics, results_by_index |-> <<>>,
     unmatched_indices |-> <<>>, assigned_counts |-> <<>>]

(* duplicate_messages = [] before the fallback loop *)
FallbackStart(first) ==
    [diagnostics |-> first.diagnostics, results_by_index |-> first.results_by_index,
     assigned_counts |-> first.assigned_counts, duplicate_messages |-> <<>>]

(* the returned pair *)
Returns(assignments, diagnostics) == [assignments |-> assignments, diagnostics |-> diagnostics]

(* ordered_results and diagnostics.extend(sorted(duplicate_messages)) *)
ReturnOrdered(acc, rows) ==
    Returns(OrderedResults(acc.results_by_index, rows),
            acc.diagnostics \o SortedMessages(acc.duplicate_messages))

(* the fallback loop over the rows the first pass left unmatched *)
FallbackOf(first, slot_candidates, dataset) ==
    Fallback(FallbackStart(first), first.unmatched_indices, slot_candidates, dataset)

(* from the degenerate-matrix test to the return *)
AssignRows(diagnostics, slot_candidates, column_codes, cost_matrix, dataset) ==
    IF cost_matrix = <<>> \/ cost_matrix[1] = <<>> THEN Returns(<<>>, diagnostics)
    ELSE IF HungarianRaises(cost_matrix)
    THEN Returns(<<>>, Append(diagnostics, Diag("unable_to_compute", 0, "", {}, <<>>)))
    ELSE ReturnOrdered(
             FallbackOf(FirstPass(FirstPassStart(diagnostics), Len(slot_candidates),
                                  slot_candidates, column_codes, cost_matrix,
                                  _hungarian_algorithm(cost_matrix), dataset),
                        slot_candidates, dataset),
             Len(slot_candidates))

(* from `if not slot_candidates` on *)
AssignCandidates(diagnostics, slot_candidates, column_codes, dataset) ==
    IF slot_candidates = <<>> THEN Returns(<<>>, diagnostics)
    ELSE AssignRows(diagnostics \o ShortfallDiagnostics(slot_candidates), slot_candidates,
                    column_codes, CostMatrix(slot_candidates, column_codes, dataset), dataset)

(* the result of the loop over the slots, handed to the rest of the function *)
AssignFiltered(filtered, dataset) ==
    AssignCandidates(filtered.diagnostics, filtered.slot_candidates,
                     ColumnCodes(filtered.slot_candidates), dataset)

(* the pair (assignments, diagnostics) the whole call returns *)
compute_team_video_assignments(slots, match_countries, dataset, console) ==
    AssignFiltered(FilterSlots(slots, match_countries, dataset, console), dataset)

(* ------------------------------- inputs -------------------------------- *)
MatchOrder == <<2, 12>>
MatchNumbers == Range(MatchOrder)
SheetTitle == "ROS"
Values == {3, 5, 7}

(* the slots of a sheet whose RANKING MATCH rows are MatchOrder[1..k], each
   preceded by cnt[match] placeholder rows *)
RECURSIVE SlotsOfSheet(_, _)
SlotsOfSheet(cnt, k) ==
    IF k = 0 THEN <<>>
    ELSE LET before == SlotsOfSheet(cnt, k - 1)
             first_row == Len(before) + (k - 1)
         IN before \o [i \in 1..cnt[MatchOrder[k]] |->
                [sheet_title |-> SheetTitle, row_index |-> first_row + i - 1,
                 match_number |-> MatchOrder[k], placeholder_index |-> i - 1]]

SlotLists ==
    {SlotsOfSheet(cnt, Len(MatchOrder)) :
        cnt \in {c \in [MatchNumbers -> 0..MaxSlots] :
                    SumSeq([k \in 1..Len(MatchOrder) |-> c[MatchOrder[k]]]) <= MaxSlots}}

(* raw country tokens of a schedule record, in the order the record lists
   them; a match's list is the sub-list of at most MaxCountries of them *)
TokenOrder == <<USA, <<"Z", "Z", "Z">>, <<"k", "r">>, CZE, KOR>>
RawTokens == Range(TokenOrder)

CountryLists ==
    {SelectSeq(TokenOrder, LAMBDA t : t \in S) :
        S \in {T \in SUBSET RawTokens : Cardinality(T) <= MaxCountries}}

(* schedules with an entry for some of the matches the slots refer to *)
MatchCountryMaps(slot_list) ==
    UNION {[D -> CountryLists] :
              D \in SUBSET {slot_list[i].match_number : i \in 1..Len(slot_list)}}

(* the identities the catalogs of the engine have rows for, in row order,
   and the label of each one's row *)
CatalogCodes == <<CZE, KOR, USA>>

CatalogLabel(code) ==
    CASE code = CZE -> <<"C", "z", "e", "c", "h", "i", "a">>
      [] code = KOR -> <<"S", "o", "u", "t", "h", " ", "K", "o", "r", "e", "a">>
      [] OTHER -> USA

(* the value of an identity's video in the catalogs that vary the rows *)
BaseValue(code) ==
    CASE code = CZE -> 5 [] code = KOR -> 3 [] OTHER -> 7

(* the catalog rows, in code order, of the identities that have a row *)
RECURSIVE CatalogRows(_, _)
CatalogRows(choice, k) ==
    IF k = 0 THEN <<>>
    ELSE LET c == CatalogCodes[k]
         IN CatalogRows(choice, k - 1) \o
            (IF IsNone(choice[c]) THEN <<>>
             ELSE <<[team_text |-> CatalogLabel(c), value |-> Get(choice[c])]>>)

(* catalogs in which every identity has a video with some value, and catalogs
   in which an identity has its base value, a video without value, or no row *)
CatalogChoices ==
    [Range(CatalogCodes) -> {Some(Some(v)) : v \in Values}]
    \cup {ch \in [Range(CatalogCodes) -> {None, Some(None)} \cup
                                         {Some(Some(v)) : v \in Values}] :
             \A c \in Range(CatalogCodes) :
                 ch[c] \in {None, Some(None), Some(Some(BaseValue(c)))}}

Datasets == {IngestRows(CatalogRows(choice, Len(CatalogCodes))) : choice \in CatalogChoices}

(* ---------------------------- state machine ---------------------------- *)
VARIABLES slots, match_countries, dataset, console,
          pc, diagnostics, console_log, slot_candidates,
          column_codes, cost_matrix, assignments, solver_error,
          results_by_index, unmatched_indices, assigned_counts,
          duplicate_messages, ordered_results

(* the caller's side of a sequence of calls: how many calls were entered, and
   the inputs and the returned pair of the call before the current one *)
VARIABLES calls, previous

(* the identity normalizer at work on one str: the str it was given, what
   each of its three entry points returned for it (None until the entry
   point has been applied), and the round before when a result was given
   back to it as the next str *)
VARIABLES entered, cleaned, resolved, structured, earlier

(* the ingestion of the Videos sheet: its rows below the header row, how many
   of them the pass has consumed, the catalog built so far, and the code a
   caller asked the finished catalog for with the entry it got (None until
   a caller has asked) *)
VARIABLES video_rows, row_cursor, video_dataset, asked, found

(* build_match_country_map at work: the records of the schedule, whether the
   importer has a console, how many records the loop has consumed, mapping,
   diagnostics, the lines written on the console, what the walk of the record
   of the last turn collected (None when the record was not walked), and
   whether the function is in its loop, has returned or has raised *)
VARIABLES schedule, importer_console, record_cursor, country_map, schedule_diagnostics,
          schedule_log, walked, schedule_pc

(* collect_team_video_slots at work: the sheets of the spreadsheet, how many
   of them the outer loop has taken, the row the inner loop has reached on
   the current sheet, pending, slots, diagnostics, and whether the function
   is between sheets, in the rows of a sheet, or has returned *)
VARIABLES spreadsheet, sheet_cursor, task_row, pending_rows, found_slots, slot_diagnostics,
          collector_pc

(* _hungarian_algorithm at work, when its loops are followed turn by turn.
   solver_pc is where it is: idle, before a row, in the first or the second
   `while True`, done; the row i of the outer loop; the parity of the turns
   the two inner loops have taken.  solver_run is what it holds: the number
   of those turns and u, v, p, way, minv, used, delta, j0, j1 *)
VARIABLES solver_pc, solver_run

SolverAtRest == [phase |-> "idle", i |-> 0, parity |-> 0]
SolverIdle == [turns |-> 0, st |-> HungarianStart(0, 0)]

inputs == <<slots, match_countries, dataset, console>>
session == <<calls, previous>>
normalizer == <<entered, cleaned, resolved, structured, earlier>>
ingestion == <<video_rows, row_cursor, video_dataset, asked, found>>
schedule_map == <<schedule, importer_console, record_cursor, country_map,
                  schedule_diagnostics, schedule_log, walked, schedule_pc>>
collector == <<spreadsheet, sheet_cursor, task_row, pending_rows, found_slots,
               slot_diagnostics, collector_pc>>
components == <<normalizer, ingestion, schedule_map, collector, solver_pc, solver_run>>
vars == <<slots, match_countries, dataset, console,
          pc, diagnostics, console_log, slot_candidates,
          column_codes, cost_matrix, assignments, solver_error,
          results_by_index, unmatched_indices, assigned_counts,
          duplicate_messages, ordered_results, calls, previous,
          entered, cleaned, resolved, structured, earlier,
          video_rows, row_cursor, video_dataset, asked, found,
          schedule, importer_console, record_cursor, country_map, schedule_diagnostics,
          schedule_log, walked, schedule_pc,
          spreadsheet, sheet_cursor, task_row, pending_rows, found_slots, slot_diagnostics,
          collector_pc, solver_pc, solver_run>>

(* no str has been given to the identity normalizer *)
IdleNormalizer ==
    /\ entered = <<>>
    /\ cleaned = None
    /\ resolved = None
    /\ structured = None
    /\ earlier = None

(* no Videos sheet has been read *)
IdleIngestion ==
    /\ video_rows = <<>>
    /\ row_cursor = 0
    /\ video_dataset = EmptyDataset
    /\ asked = None
    /\ found = None

(* no schedule has been read *)
IdleSchedule ==
    /\ schedule = <<>>
    /\ importer_console = FALSE
    /\ record_cursor = 0
    /\ country_map = <<>>
    /\ schedule_diagnostics = <<>>
    /\ schedule_log = <<>>
    /\ walked = None
    /\ schedule_pc = "idle"

(* no spreadsheet has been read for slots *)
IdleCollector ==
    /\ spreadsheet = <<>>
    /\ sheet_cursor = 0
    /\ task_row = 0
    /\ pending_rows = <<>>
    /\ found_slots = <<>>
    /\ slot_diagnostics = <<>>
    /\ collector_pc = "idle"

Init ==
    /\ slots \in SlotLists
    /\ match_countries \in MatchCountryMaps(slots)
    /\ dataset \in Datasets
    /\ console \in BOOLEAN
    /\ pc = "start"
    /\ diagnostics = <<>>
    /\ console_log = <<>>
    /\ slot_candidates = <<>>
    /\ column_codes = <<>>
    /\ cost_matrix = <<>>
    /\ assignments = <<>>
    /\ solver_error = FALSE
    /\ results_by_index = <<>>
    /\ unmatched_indices = <<>>
    /\ assigned_counts = <<>>
    /\ duplicate_messages = <<>>
    /\ ordered_results = <<>>
    /\ calls = 1
    /\ previous = None
    /\ solver_pc = SolverAtRest
    /\ solver_run = SolverIdle
    /\ IdleNormalizer
    /\ IdleIngestion
    /\ IdleSchedule
    /\ IdleCollector

(* Stage A: the loop over the slots, and the return when no slot is left *)
FilterCandidates ==
    /\ pc = "start"
    /\ \E acc \in {FilterSlots(slots, match_countries, dataset, console)} :
          /\ diagnostics' = acc.diagnostics
          /\ slot_candidates' = acc.slot_candidates
          /\ console_log' = IF console /\ acc.slot_candidates # <<>>
                            THEN acc.console_log \o CandidateLogLines(acc.slot_candidates)
                            ELSE acc.console_log
          /\ pc' = IF acc.slot_candidates = <<>> THEN "returned" ELSE "filtered"
    /\ UNCHANGED <<inputs, session, components, column_codes, cost_matrix, assignments, solver_error,
                   results_by_index, unmatched_indices, assigned_counts,
                   duplicate_messages, ordered_results>>

(* Stages B and C: columns, cost matrix, solver call inside try/except *)
SolveAssignment ==
    /\ pc = "filtered"
    /\ \E cols \in {ColumnCodes(slot_candidates)} :
       \E matrix \in {CostMatrix(slot_candidates, cols, dataset)} :
       \E diag \in {diagnostics \o ShortfallDiagnostics(slot_candidates)} :
          /\ column_codes' = cols
          /\ cost_matrix' = matrix
          /\ IF matrix = <<>> \/ matrix[1] = <<>>
             THEN /\ diagnostics' = diag
                  /\ assignments' = <<>>
                  /\ solver_error' = FALSE
                  /\ pc' = "returned"
             ELSE IF HungarianRaises(matrix)
             THEN /\ diagnostics' = Append(diag, Diag("unable_to_compute", 0, "", {}, <<>>))
                  /\ assignments' = <<>>
                  /\ solver_error' = TRUE
                  /\ pc' = "returned"
             ELSE /\ diagnostics' = diag
                  /\ assignments' = _hungarian_algorithm(matrix)
                  /\ solver_error' = FALSE
                  /\ pc' = "solved"
    /\ UNCHANGED <<inputs, session, components, console_log, slot_candidates,
                   results_by_index, unmatched_indices, assigned_counts,
                   duplicate_messages, ordered_results>>

(* Stage D, first pass: accept or reject the solver's column of every row *)
ExtractFirstPass ==
    /\ pc = "solved"
    /\ \E acc \in {FirstPass(FirstPassStart(diagnostics), Len(slot_candidates),
                             slot_candidates, column_codes, cost_matrix, assignments,
                             dataset)} :
          /\ diagnostics' = acc.diagnostics
          /\ results_by_index' = acc.results_by_index
          /\ unmatched_indices' = acc.unmatched_indices
          /\ assigned_counts' = acc.assigned_counts
    /\ pc' = "extracted"
    /\ UNCHANGED <<inputs, session, components, console_log, slot_candidates, column_codes, cost_matrix,
                   assignments, solver_error, duplicate_messages, ordered_results>>

(* Stage D, fallback: the unmatched rows take their least used candidate;
   then the results are put in row order and returned *)
DuplicateFallback ==
    /\ pc = "extracted"
    /\ \E acc \in {Fallback([diagnostics |-> diagnostics,
                             results_by_index |-> results_by_index,
                             assigned_counts |-> assigned_counts,
                             duplicate_messages |-> <<>>],
                            unmatched_indices, slot_candidates, dataset)} :
       \E ordered \in {OrderedResults(acc.results_by_index, Len(slot_candidates))} :
          /\ results_by_index' = acc.results_by_index
          /\ assigned_counts' = acc.assigned_counts
          /\ duplicate_messages' = acc.duplicate_messages
          /\ ordered_results' = ordered
          /\ console_log' = IF console THEN console_log \o DuplicateWarnings(ordered)
                            ELSE console_log
          /\ diagnostics' = acc.diagnostics \o SortedMessages(acc.duplicate_messages)
    /\ pc' = "returned"
    /\ UNCHANGED <<inputs, session, components, slot_candidates, column_codes, cost_matrix, assignments,
                   solver_error, unmatched_indices>>

Next ==
    \/ FilterCandidates
    \/ SolveAssignment
    \/ ExtractFirstPass
    \/ DuplicateFallback

Spec == Init /\ [][Next]_vars

(* --------------------------- claim vocabulary -------------------------- *)
Returned == pc = "returned"

(* the identities eligible for the slot's match whose catalog video has a
   numeric value: the slot's candidate set *)
ValidCandidates(slot) ==
    {c \in COUNTRY_CODE_TO_INFO :
        /\ \E i \in 1..Len(SlotCountries(slot, match_countries)) :
               normalize_country_code(SlotCountries(slot, match_countries)[i]) = Some(c)
        /\ ~IsNone(find_video_entry_for_code(c, dataset))
        /\ ~IsNone(Get(find_video_entry_for_code(c, dataset)).value)}

(* per slot of the call, its candidate set *)
CandidateSets == [i \in 1..Len(slots) |-> ValidCandidates(slots[i])]

(* per identity with a valued catalog video, the value *)
CatalogValues ==
    [c \in {c \in COUNTRY_CODE_TO_INFO :
                /\ ~IsNone(find_video_entry_for_code(c, dataset))
                /\ ~IsNone(Get(find_video_entry_for_code(c, dataset)).value)} |->
        Get(Get(find_video_entry_for_code(c, dataset)).value)]

(* S: the slots with a candidate; U: the distinct candidate identities *)
WithCandidates(cand) == {i \in DOMAIN cand : cand[i] # {}}
Identities(cand) == UNION {cand[i] : i \in DOMAIN cand}

DistinctValues(cand, val) ==
    \A a \in Identities(cand) : \A b \in Identities(cand) : a # b => val[a] # val[b]

(* every slot with a candidate gets an identity of its own candidate set, no
   identity twice *)
PerfectMatchings(cand) ==
    {f \in [WithCandidates(cand) -> Identities(cand)] :
        /\ \A i \in DOMAIN f : f[i] \in cand[i]
        /\ \A i \in DOMAIN f : \A j \in DOMAIN f : i # j => f[i] # f[j]}

(* the sum of the values a matching assigns *)
MatchingTotal(f, val, n) == SumSeq([i \in 1..n |-> IF i \in DOMAIN f THEN val[f[i]] ELSE 0])

AssignedCodes == [k \in 1..Len(ordered_results) |-> ordered_results[k].country_code]

AssignedTotal ==
    SumSeq([k \in 1..Len(ordered_results) |-> Get(ordered_results[k].video.value)])

NoIdentityTwice ==
    \A k \in 1..Len(ordered_results) : \A l \in 1..Len(ordered_results) :
        k # l => ordered_results[k].country_code # ordered_results[l].country_code

(* the duplicate-reuse diagnostics among the returned diagnostics *)
DuplicateDiagnostics == SelectSeq(diagnostics, LAMBDA d : d.kind = "duplicate_assignment")

(* total is the least total of the matchings pm *)
LeastTotal(total, pm, val, n) ==
    /\ \E f \in pm : total = MatchingTotal(f, val, n)
    /\ \A f \in pm : total <= MatchingTotal(f, val, n)

(* on sufficient supply with distinct values, and with a perfect matching if
   one is asked for, the assigned total is the least total of the matchings *)
OptimalOn(cand, val, pm, matching_asked) ==
    /\ WithCandidates(cand) # {}
    /\ Cardinality(Identities(cand)) >= Cardinality(WithCandidates(cand))
    /\ DistinctValues(cand, val)
    /\ (matching_asked => pm # {})
    => LeastTotal(AssignedTotal, pm, val, Len(slots))

(* -------------------------------- claims ------------------------------- *)
(* C1: feasibility.  When the call has returned, every slot with at least one
   valid candidate has exactly one assignment in the returned list, bound to
   an identity of the slot's own candidate set, and a slot without a valid
   candidate has none. *)
C1_Feasibility ==
    Returned =>
        \A i \in 1..Len(slots) :
            IF ValidCandidates(slots[i]) # {}
            THEN /\ Cardinality({k \in 1..Len(ordered_results) :
                                    ordered_results[k].slot = slots[i]}) = 1
                 /\ \A k \in 1..Len(ordered_results) :
                        ordered_results[k].slot = slots[i]
                        => ordered_results[k].country_code \in ValidCandidates(slots[i])
            ELSE \A k \in 1..Len(ordered_results) : ordered_results[k].slot # slots[i]

(* a returned run of three slots: one without a candidate, one with two *)
C1_Witness ==
    /\ Returned
    /\ Len(slots) = 3
    /\ Len(ordered_results) = 2
    /\ \E i \in 1..Len(slots) : ValidCandidates(slots[i]) = {}
    /\ \E i \in 1..Len(slots) : Cardinality(ValidCandidates(slots[i])) = 2

(* C2, as amended: optimality.  When the candidate videos have distinct
   values, |U| >= |S| and a perfect matching of the slots with candidates to
   distinct identities of their own candidate sets exists, the sum of the
   assigned values is the least total of all such matchings. *)
C2_OptimalWhenMatchable ==
    Returned =>
        \A cand \in {CandidateSets} : \A pm \in {PerfectMatchings(cand)} :
            OptimalOn(cand, CatalogValues, pm, TRUE)

(* C2 as stated: |U| >= |S| and distinct values alone make the assigned total
   the least total of a perfect matching *)
C2_Original ==
    Returned =>
        \A cand \in {CandidateSets} : \A pm \in {PerfectMatchings(cand)} :
            OptimalOn(cand, CatalogValues, pm, FALSE)

(* a returned run in which the perfect matchings differ in their totals *)
C2_Witness ==
    /\ Returned
    /\ Cardinality(WithCandidates(CandidateSets)) >= 2
    /\ DistinctValues(CandidateSets, CatalogValues)
    /\ \E f \in PerfectMatchings(CandidateSets) : \E g \in PerfectMatchings(CandidateSets) :
           MatchingTotal(f, CatalogValues, Len(slots)) < MatchingTotal(g, CatalogValues, Len(slots))
    /\ LeastTotal(AssignedTotal, PerfectMatchings(CandidateSets), CatalogValues, Len(slots))

(* C3: two slots, the first with candidates CZE (value 5) and KOR (value 3),
   the second with KOR alone: the second gets KOR and the first CZE, no
   identity is used twice and no duplicate-reuse diagnostic is returned. *)
C3_ForcedExpensiveChoice ==
    /\ Returned
    /\ Len(slots) = 2
    /\ ValidCandidates(slots[1]) = {CZE, KOR}
    /\ ValidCandidates(slots[2]) = {KOR}
    /\ CatalogValues[CZE] = 5
    /\ CatalogValues[KOR] = 3
    => /\ Len(ordered_results) = 2
       /\ ordered_results[1].slot = slots[1]
       /\ ordered_results[1].country_code = CZE
       /\ ordered_results[2].slot = slots[2]
       /\ ordered_results[2].country_code = KOR
       /\ NoIdentityTwice
       /\ DuplicateDiagnostics = <<>>

(* the scenario of C3 after the return *)
C3_Witness ==
    /\ Returned
    /\ Len(slots) = 2
    /\ ValidCandidates(slots[1]) = {CZE, KOR}
    /\ ValidCandidates(slots[2]) = {KOR}
    /\ CatalogValues[CZE] = 5
    /\ CatalogValues[KOR] = 3
    /\ AssignedCodes = <<CZE, KOR>>

(* C4, as amended: an identity is bound to more than one slot only when no
   perfect matching of the slots with candidates to distinct identities of
   their own candidate sets exists. *)
C4_DuplicatesOnlyWithoutMatching ==
    Returned /\ PerfectMatchings(CandidateSets) # {} => NoIdentityTwice

(* C4 as stated: with |U| >= |S| no identity is bound to more than one slot *)
C4_Original ==
    /\ Returned
    /\ Cardinality(Identities(CandidateSets)) >= Cardinality(WithCandidates(CandidateSets))
    => NoIdentityTwice

(* three slots matched to three identities *)
C4_Witness ==
    /\ Returned
    /\ PerfectMatchings(CandidateSets) # {}
    /\ Len(ordered_results) = 3
    /\ NoIdentityTwice

(* C5: the returned diagnostics hold as many duplicate-reuse diagnostics as
   there are assignments beyond the first of each identity, per identity and
   in total, each naming an identity and the match number of a slot bound to
   it; with and without a console. *)
C5_DuplicateReuseDiagnosed ==
    Returned =>
        /\ Len(DuplicateDiagnostics)
             = Len(ordered_results) - Cardinality(Range(AssignedCodes))
        /\ \A c \in Range(AssignedCodes) :
               Cardinality({k \in 1..Len(DuplicateDiagnostics) :
                               DuplicateDiagnostics[k].codes = {c}})
               = Cardinality({k \in 1..Len(ordered_results) :
                                 ordered_results[k].country_code = c}) - 1
        /\ \A k \in 1..Len(DuplicateDiagnostics) :
               \E r \in 1..Len(ordered_results) :
                   /\ DuplicateDiagnostics[k].codes = {ordered_results[r].country_code}
                   /\ DuplicateDiagnostics[k].match = ordered_results[r].slot.match_number

(* two reuses diagnosed in a run without a console *)
C5_Witness ==
    /\ Returned
    /\ ~console
    /\ Len(DuplicateDiagnostics) = 2
    /\ Len(ordered_results) = 3

(* C6: when every slot of a call with at least one slot has the same single
   identity as its only candidate, every slot is assigned that identity and
   all but one of the assignments have a duplicate-reuse diagnostic naming
   it. *)
C6_SingleIdentityShortfall ==
    Returned /\ slots # <<>> =>
        \A c \in COUNTRY_CODE_TO_INFO :
            (\A i \in 1..Len(slots) : ValidCandidates(slots[i]) = {c})
            => /\ Len(ordered_results) = Len(slots)
               /\ \A k \in 1..Len(slots) :
                      /\ ordered_results[k].slot = slots[k]
                      /\ ordered_results[k].country_code = c
               /\ Len(DuplicateDiagnostics) = Len(slots) - 1
               /\ \A k \in 1..Len(DuplicateDiagnostics) :
                      DuplicateDiagnostics[k].codes = {c}

(* three slots with the one candidate KOR, after the return *)
C6_Witness ==
    /\ Returned
    /\ Len(slots) = 3
    /\ \A i \in 1..Len(slots) : ValidCandidates(slots[i]) = {KOR}
    /\ Len(ordered_results) = 3
    /\ Len(DuplicateDiagnostics) = 2

(* C7: the solver never raises its fewer-columns-than-rows error, so the
   except branch is never taken and its diagnostic never returned; and what a
   call has returned is the pair the function is defined to return on its
   input, whatever the tokens, the catalog and the supply. *)
C7_NeverRaises ==
    /\ ~solver_error
    /\ \A k \in 1..Len(diagnostics) : diagnostics[k].kind # "unable_to_compute"
    /\ Returned =>
           compute_team_video_assignments(slots, match_countries, dataset, console)
           = Returns(ordered_results, diagnostics)

(* a returned call whose input had a token that does not normalize, an
   identity without a video, a video without a value and fewer identities
   than slots *)
C7_Witness ==
    /\ Returned
    /\ \A kind \in {"unrecognized_codes", "no_videos_found", "lack_value_scores",
                     "placeholders_reached"} :
           \E k \in 1..Len(diagnostics) : diagnostics[k].kind = kind
    /\ ordered_results # <<>>

(* C8 as stated: a call with no slots at all, or in which no slot has a
   valid candidate, returns no assignment and at least one diagnostic. *)
C8_Original ==
    Returned /\ (slots = <<>> \/ WithCandidates(CandidateSets) = {})
    => ordered_results = <<>> /\ diagnostics # <<>>

(* the sequence without its i-th element *)
Without(seq, i) == SubSeq(seq, 1, i - 1) \o SubSeq(seq, i + 1, Len(seq))

(* the returned pair is the pair `other` of another call, but for the one
   diagnostic diag *)
SamePairButFor(other, diag) ==
    /\ ordered_results = other.assignments
    /\ \E k \in 1..Len(diagnostics) :
           /\ diagnostics[k] = diag
           /\ Without(diagnostics, k) = other.diagnostics

(* C9: for a slot whose match has no entry, or an empty one, in the
   match-country map, the returned list holds no assignment of the slot, and
   the returned pair is the pair the call returns without that slot, with one
   more diagnostic: the missing-country-data diagnostic of the slot. *)
C9_UnscheduledSlotSkipped ==
    Returned =>
        \A i \in 1..Len(slots) :
            SlotCountries(slots[i], match_countries) = <<>>
            => /\ \A k \in 1..Len(ordered_results) : ordered_results[k].slot # slots[i]
               /\ SamePairButFor(
                      compute_team_video_assignments(Without(slots, i), match_countries,
                                                     dataset, console),
                      SlotDiag("missing_country_data", slots[i]))

(* a returned call with two assigned slots and a slot of a match the map has
   no entry for *)
C9_Witness ==
    /\ Returned
    /\ Len(ordered_results) = 2
    /\ \E i \in 1..Len(slots) : slots[i].match_number \notin DOMAIN match_countries

(* the identities eligible for the slot's match whose catalog video has no
   value *)
MissingValueIdentities(slot) ==
    {c \in COUNTRY_CODE_TO_INFO :
        /\ \E i \in 1..Len(SlotCountries(slot, match_countries)) :
               normalize_country_code(SlotCountries(slot, match_countries)[i]) = Some(c)
        /\ ~IsNone(find_video_entry_for_code(c, dataset))
        /\ IsNone(Get(find_video_entry_for_code(c, dataset)).value)}

(* C10 as stated: every identity eligible for a slot's match whose video has
   no value is assigned to no slot and is named in a missing-value diagnostic
   for that match. *)
C10_Original ==
    Returned =>
        \A i \in 1..Len(slots) : \A c \in MissingValueIdentities(slots[i]) :
            /\ \A k \in 1..Len(ordered_results) : ordered_results[k].country_code # c
            /\ \E k \in 1..Len(diagnostics) :
                   /\ diagnostics[k].kind = "lack_value_scores"
                   /\ diagnostics[k].match = slots[i].match_number
                   /\ c \in diagnostics[k].codes

(* ------------------------- repeated invocation ------------------------- *)
MaxCalls == 2
MaxRepeatSlots == 2

(* the locals of the running call *)
Frame ==
    [diagnostics |-> diagnostics, console_log |-> console_log,
     slot_candidates |-> slot_candidates, column_codes |-> column_codes,
     cost_matrix |-> cost_matrix, assignments |-> assignments,
     solver_error |-> solver_error, results_by_index |-> results_by_index,
     unmatched_indices |-> unmatched_indices, assigned_counts |-> assigned_counts,
     duplicate_messages |-> duplicate_messages, ordered_results |-> ordered_results]

(* fault variant of EnterCall: the locals outlive the call, as module-level
   names or mutable default arguments would *)
ReenterCall(frame) == frame

(* a call starts on locals of its own: every list, set and dict of the
   function body is created empty inside the call *)
EnterCall(frame) ==
    [diagnostics |-> <<>>, console_log |-> <<>>, slot_candidates |-> <<>>,
     column_codes |-> <<>>, cost_matrix |-> <<>>, assignments |-> <<>>,
     solver_error |-> FALSE, results_by_index |-> <<>>, unmatched_indices |-> <<>>,
     assigned_counts |-> <<>>, duplicate_messages |-> <<>>, ordered_results |-> <<>>]

(* what the caller keeps of a returned call *)
CallRecord ==
    [slots |-> slots, match_countries |-> match_countries, dataset |-> dataset,
     console |-> console, result |-> Returns(ordered_results, diagnostics)]

(* the slot lists of the next call: the same list, or the list without its
   last slot *)
NextSlotLists(slot_list) ==
    {slot_list} \cup (IF slot_list = <<>> THEN {}
                      ELSE {SubSeq(slot_list, 1, Len(slot_list) - 1)})

(* the maps of the next call: the same map, or a map without entries *)
NextMatchCountryMaps(map) == {map, <<>>}

(* the caller calls the function again after it has returned, on the same
   catalog, with or without a console *)
Invoke ==
    /\ pc = "returned"
    /\ calls < MaxCalls
    /\ previous' = Some(CallRecord)
    /\ calls' = calls + 1
    /\ slots' \in NextSlotLists(slots)
    /\ match_countries' \in NextMatchCountryMaps(match_countries)
    /\ console' \in BOOLEAN
    /\ \E frame \in {EnterCall(Frame)} :
          /\ diagnostics' = frame.diagnostics
          /\ console_log' = frame.console_log
          /\ slot_candidates' = frame.slot_candidates
          /\ column_codes' = frame.column_codes
          /\ cost_matrix' = frame.cost_matrix
          /\ assignments' = frame.assignments
          /\ solver_error' = frame.solver_error
          /\ results_by_index' = frame.results_by_index
          /\ unmatched_indices' = frame.unmatched_indices
          /\ assigned_counts' = frame.assigned_counts
          /\ duplicate_messages' = frame.duplicate_messages
          /\ ordered_results' = frame.ordered_results
    /\ pc' = "start"
    /\ UNCHANGED <<dataset, components>>

InitCalls == Init /\ Len(slots) <= MaxRepeatSlots

NextCalls ==
    \/ FilterCandidates
    \/ SolveAssignment
    \/ ExtractFirstPass
    \/ DuplicateFallback
    \/ Invoke

SpecCalls == InitCalls /\ [][NextCalls]_vars

(* the current call has the slots, the map and the catalog of the call
   before it *)
SameInputsAsPrevious ==
    /\ ~IsNone(previous)
    /\ Get(previous).slots = slots
    /\ Get(previous).match_countries = match_countries
    /\ Get(previous).dataset = dataset

(* C11: determinism and statelessness.  A call that follows another call
   returns the pair the function defines for its own slots, map and catalog,
   whatever the earlier call was given and returned; and when its slots, map
   and catalog are those of the earlier call, it returns the same assignments
   and the same diagnostics in the same order. *)
C11_DeterministicAndStateless ==
    Returned /\ ~IsNone(previous) =>
        /\ Returns(ordered_results, diagnostics)
             = compute_team_video_assignments(slots, match_countries, dataset, console)
        /\ (SameInputsAsPrevious
            => Returns(ordered_results, diagnostics) = Get(previous).result)

(* a second call, without a console after a first call with one, on the same
   inputs, that has returned a duplicated assignment and its diagnostics *)
C11_Witness ==
    /\ Returned
    /\ SameInputsAsPrevious
    /\ Get(previous).console /\ ~console
    /\ Len(ordered_results) = 2
    /\ DuplicateDiagnostics # <<>>
    /\ Returns(ordered_results, diagnostics) = Get(previous).result

(* ------------------------- identity normalizer -------------------------- *)
(* The three entry points of the identity normalizer, each applied to a str:
   normalize_country_lookup_value, lookup_country_code and
   normalize_country_code.  A result that is a str can be given back as the
   next str. *)
MaxCodeLen == 3

(* every spelling entered for some line when the alias table is built *)
AliasSpellings ==
    UNION {LineVariants(COUNTRY_CODE_DATA[i]) : i \in 1..Len(COUNTRY_CODE_DATA)}

(* labels as a catalog sheet or a schedule writes them *)
Labels ==
    {<<"RI-K", "RI-R", " ", "T", "e", "a", "m", " ", "K", "o", "r", "e", "a">>, <<"T", "e", "a", "m", " ", "K", "o", "r", "e", "a">>, <<"K", "o", "r", "e", "a">>, <<"RI-K", "RI-R", " ", "S", "o", "u", "t", "h", " ", "K", "o", "r", "e", "a">>, <<"S", "o", "u", "t", "h", " ", "K", "o", "r", "e", "a", " ", "T", "e", "a", "m">>,
     <<"F", "G", "C", " ", "T", "e", "a", "m", " ", "U", "S", "A">>, <<"F", "i", "r", "s", "t", " ", "G", "l", "o", "b", "a", "l", " ", "T", "e", "a", "m", ":", " ", "C", "z", "e", "c", "h", "i", "a">>, <<"D", "e", "l", "e", "g", "a", "t", "i", "o", "n", " ", "o", "f", " ", "A", "n", "d", "o", "r", "r", "a">>,
     <<"T", "e", "a", "m", " ", "C", "h", "i", "n", "a">>, <<"K", "o", "r", "e", "a", " ", "T", "e", "a", "m", " ", "T", "e", "a", "m">>, <<"T", "e", "a", "m">>, <<"C", "o^", "t", "e", " ", "d", "'", "I", "v", "o", "i", "r", "e">>, <<" ", "u", "s", "a", " ">>, <<"U", "S", "A", "A">>}

(* the strs of at most n characters of CodeAlphabet *)
CodeAlphabet == {"U", "S", "A", "K", "R", "s", " "}

RECURSIVE StrsUpTo(_)
StrsUpTo(n) ==
    IF n = 0 THEN {<<>>}
    ELSE StrsUpTo(n - 1) \cup {Append(s, c) : s \in StrsUpTo(n - 1), c \in CodeAlphabet}

NormalizerInputs == AliasSpellings \cup Labels \cup StrsUpTo(MaxCodeLen)

(* the engine at rest *)
IdleEngine ==
    /\ slots = <<>>
    /\ match_countries = <<>>
    /\ dataset = EmptyDataset
    /\ console = FALSE
    /\ pc = "idle"
    /\ diagnostics = <<>>
    /\ console_log = <<>>
    /\ slot_candidates = <<>>
    /\ column_codes = <<>>
    /\ cost_matrix = <<>>
    /\ assignments = <<>>
    /\ solver_error = FALSE
    /\ results_by_index = <<>>
    /\ unmatched_indices = <<>>
    /\ assigned_counts = <<>>
    /\ duplicate_messages = <<>>
    /\ ordered_results = <<>>
    /\ calls = 0
    /\ previous = None
    /\ solver_pc = SolverAtRest
    /\ solver_run = SolverIdle

engine == <<slots, match_countries, dataset, console,
            pc, diagnostics, console_log, slot_candidates,
            column_codes, cost_matrix, assignments, solver_error,
            results_by_index, unmatched_indices, assigned_counts,
            duplicate_messages, ordered_results, calls, previous, solver_pc, solver_run>>

(* everything but the identity normalizer *)
beside_normalizer == <<engine, ingestion, schedule_map, collector>>

InitText ==
    /\ IdleEngine
    /\ IdleIngestion
    /\ IdleSchedule
    /\ IdleCollector
    /\ entered \in NormalizerInputs
    /\ cleaned = None
    /\ resolved = None
    /\ structured = None
    /\ earlier = None

(* cleaned = normalize_country_lookup_value(entered) *)
NormalizeLookupValue ==
    /\ IsNone(cleaned)
    /\ cleaned' = Some(normalize_country_lookup_value(entered))
    /\ UNCHANGED <<beside_normalizer, entered, resolved, structured, earlier>>

(* resolved = lookup_country_code(entered) *)
LookupCountryCode ==
    /\ IsNone(resolved)
    /\ resolved' = Some(lookup_country_code(entered))
    /\ UNCHANGED <<beside_normalizer, entered, cleaned, structured, earlier>>

(* structured = normalize_country_code(entered) *)
NormalizeCountryCode ==
    /\ IsNone(structured)
    /\ structured' = Some(normalize_country_code(entered))
    /\ UNCHANGED <<beside_normalizer, entered, cleaned, resolved, earlier>>

(* what the round has found so far, and the result that is given back *)
Round(given) ==
    [entered |-> entered, cleaned |-> cleaned, resolved |-> resolved,
     structured |-> structured, given |-> given]

(* the normalized text of this round is the str of the next round *)
GiveBackCleaned ==
    /\ IsNone(earlier)
    /\ ~IsNone(cleaned)
    /\ earlier' = Some(Round("cleaned"))
    /\ entered' = Get(cleaned)
    /\ cleaned' = None
    /\ resolved' = None
    /\ structured' = None
    /\ UNCHANGED beside_normalizer

(* the code normalize_country_code returned is the str of the next round *)
GiveBackCode ==
    /\ IsNone(earlier)
    /\ ~IsNone(structured)
    /\ ~IsNone(Get(structured))
    /\ earlier' = Some(Round("structured"))
    /\ entered' = Get(Get(structured))
    /\ cleaned' = None
    /\ resolved' = None
    /\ structured' = None
    /\ UNCHANGED beside_normalizer

NextText ==
    \/ NormalizeLookupValue
    \/ LookupCountryCode
    \/ NormalizeCountryCode
    \/ GiveBackCleaned
    \/ GiveBackCode

SpecText == InitText /\ [][NextText]_vars

(* the spellings entered for each line of the data, and for all lines *)
SpellingsOfLine == [i \in 1..Len(COUNTRY_CODE_DATA) |-> LineVariants(COUNTRY_CODE_DATA[i])]

(* ------------------- claims: identity normalizer ---------------------- *)
(* lookup_country_code has been applied to the entered str *)
Resolved == ~IsNone(resolved)

(* C17 (as the specification states it): lookup_country_code resolves the
   label "🇰🇷 Team Korea" (flag marker, noise word Team, then Korea) to
   the identity KOR. *)
C17_Original ==
    (entered = <<"RI-K", "RI-R", " ", "T", "e", "a", "m", " ", "K", "o", "r", "e", "a">> /\ Resolved) => Get(resolved) = Some(KOR)

(* C18: every spelling entered for an identity when the alias table is built
   (the canonical name and its generated variants, the supplemental aliases,
   the alpha-2 and the alpha-3 code) is resolved by lookup_country_code to
   that identity and to no other; "Czechia" and "Czech Republic" give CZE and
   "Cote d'Ivoire" gives CIV. *)
C18_AliasesResolveToTheirIdentity ==
    Resolved =>
        /\ \A i \in 1..Len(COUNTRY_CODE_DATA) :
               entered \in SpellingsOfLine[i] =>
                   Get(resolved) = Some(COUNTRY_CODE_DATA[i].iso3)
        /\ entered \in {<<"C", "z", "e", "c", "h", "i", "a">>, <<"C", "z", "e", "c", "h", " ", "R", "e", "p", "u", "b", "l", "i", "c">>} => Get(resolved) = Some(CZE)
        /\ entered = <<"C", "o", "t", "e", " ", "d", "'", "I", "v", "o", "i", "r", "e">> => Get(resolved) = Some(CIV)

C18_Witness ==
    /\ entered = <<"C", "o", "t", "e", " ", "d", "'", "I", "v", "o", "i", "r", "e">>
    /\ resolved = Some(Some(CIV))

(* the round before gave its normalized text back, and its str was a
   spelling of the alias table *)
CleanedAliasGivenBack ==
    /\ ~IsNone(earlier)
    /\ Get(earlier).given = "cleaned"
    /\ Get(earlier).entered \in AliasSpellings

(* C19: for an alias string x, resolving normalize_country_lookup_value(x)
   with lookup_country_code gives the same identity as resolving x, and
   normalizing the already normalized string leaves it unchanged. *)
C19_NormalizationIdempotent ==
    CleanedAliasGivenBack =>
        /\ (Resolved /\ ~IsNone(Get(earlier).resolved)) => resolved = Get(earlier).resolved
        /\ ~IsNone(cleaned) => Get(cleaned) = entered

C19_Witness ==
    /\ CleanedAliasGivenBack
    /\ Get(earlier).entered = <<"R", "e", "p", "u", "b", "l", "i", "c", " ", "o", "f", " ", "K", "o", "r", "e", "a">>
    /\ Get(earlier).resolved = Some(Some(KOR))
    /\ entered = <<"r", "e", "p", "u", "b", "l", "i", "c", "o", "f", "k", "o", "r", "e", "a">>
    /\ resolved = Some(Some(KOR))
    /\ cleaned = Some(entered)

(* the entered str trimmed and upper-cased, the alpha-2 codes of the data and
   the alpha-3 code on the line of an alpha-2 code *)
TrimmedUpper == Upper(Strip(entered))
Alpha2Codes == {COUNTRY_CODE_DATA[i].iso2 : i \in 1..Len(COUNTRY_CODE_DATA)}
Alpha3Of(alpha2) ==
    COUNTRY_CODE_DATA[CHOOSE i \in 1..Len(COUNTRY_CODE_DATA) :
                          COUNTRY_CODE_DATA[i].iso2 = alpha2].iso3

(* C20: normalize_country_code, after trimming and upper-casing, returns a
   3-letter member of the enumeration unchanged, a 2-letter code of the
   alpha-2 table as its alpha-3 counterpart, and null for every other input;
   the result is null or a member of the enumeration, and
   normalize_country_code applied to a non-null result returns that result. *)
C20_StructuredCodesResolveDirectly ==
    ~IsNone(structured) =>
        /\ (Len(TrimmedUpper) = 3 /\ TrimmedUpper \in COUNTRY_CODE_TO_INFO)
               => Get(structured) = Some(TrimmedUpper)
        /\ (Len(TrimmedUpper) = 2 /\ TrimmedUpper \in Alpha2Codes)
               => Get(structured) = Some(Alpha3Of(TrimmedUpper))
        /\ (/\ ~(Len(TrimmedUpper) = 3 /\ TrimmedUpper \in COUNTRY_CODE_TO_INFO)
            /\ ~(Len(TrimmedUpper) = 2 /\ TrimmedUpper \in Alpha2Codes))
               => Get(structured) = None
        /\ Get(structured) = None \/ Get(Get(structured)) \in COUNTRY_CODE_TO_INFO
        /\ (~IsNone(earlier) /\ Get(earlier).given = "structured")
               => Get(structured) = Some(entered)

C20_Witness ==
    /\ ~IsNone(earlier)
    /\ Get(earlier).given = "structured"
    /\ Get(earlier).entered = <<" ", "U", "s">>
    /\ entered = USA
    /\ structured = Some(Some(USA))

(* -------------------------- catalog ingestion --------------------------- *)
(* extract_video_dataset_from_spreadsheet reads the rows below the header row
   of the Videos sheet one by one; find_video_entry_for_code is asked for an
   identity once the pass is over. *)
MaxVideoRows == 3

(* team cells as a Videos sheet writes them; every row has a video of value 5 *)
TeamCells ==
    {<<"C", "z", "e", "c", "h", "i", "a">>, <<"C", "z", "e", "c", "h", " ", "R", "e", "p", "u", "b", "l", "i", "c">>, <<"A", "n", "t", "i", "g", "u", "a", " ", "a", "n", "d", " ", "B", "a", "r", "b", "u", "d", "a">>, <<"A", "n", "d", "o", "r", "r", "a">>, <<"c", "z", "e", " ", "k", "o", "r">>,
     <<"U", "S", "A", " ", "K", "O", "R">>, <<"K", "o", "r", "e", "a", " ", "(", "K", "O", "R", ")">>, <<"S", "o", "u", "t", "h", " ", "K", "o", "r", "e", "a">>, <<" ">>, <<"T", "e", "a", "m", " ", "U", "S", "A">>}

VideoSheets ==
    UNION {[1..n -> {[team_text |-> t, value |-> Some(5)] : t \in TeamCells}] :
              n \in 0..MaxVideoRows}

(* everything but the ingestion *)
beside_ingestion == <<engine, normalizer, schedule_map, collector>>

InitCatalog ==
    /\ IdleEngine
    /\ IdleNormalizer
    /\ IdleSchedule
    /\ IdleCollector
    /\ video_rows \in VideoSheets
    /\ row_cursor = 0
    /\ video_dataset = EmptyDataset
    /\ asked = None
    /\ found = None

(* the text of the team cell of the row at row_index *)
TeamText(row_index) == Strip(video_rows[row_index].team_text)

(* one turn of `for row_index, columns in rows`: a row without team text is
   passed over, any other row is appended and indexed *)
IngestRow ==
    /\ row_cursor < Len(video_rows)
    /\ row_cursor' = row_cursor + 1
    /\ LET row_index == row_cursor + 1
           team_text == TeamText(row_index)
       IN video_dataset' =
              IF team_text = <<>> THEN video_dataset
              ELSE IngestEntry(video_dataset, team_text,
                               RowEntry([team_text |-> team_text,
                                         value |-> video_rows[row_index].value],
                                        row_index))
    /\ UNCHANGED <<beside_ingestion, video_rows, asked, found>>

(* found = find_video_entry_for_code(code, dataset), asked of the catalog the
   pass returned *)
FindVideoEntry ==
    /\ row_cursor = Len(video_rows)
    /\ IsNone(asked)
    /\ \E code \in COUNTRY_CODE_TO_INFO :
          /\ asked' = Some(code)
          /\ found' = Some(find_video_entry_for_code(code, video_dataset))
    /\ UNCHANGED <<beside_ingestion, video_rows, row_cursor, video_dataset>>

NextCatalog ==
    \/ IngestRow
    \/ FindVideoEntry

SpecCatalog == InitCatalog /\ [][NextCatalog]_vars

(* ------------------------ claims: video catalog ------------------------ *)
(* a caller has asked the finished catalog for an identity *)
Asked == ~IsNone(asked) /\ ~IsNone(found)

(* the display name of an identity, then its supplemental aliases *)
NamesOfIdentity(code) ==
    <<COUNTRY_CODE_DATA[CHOOSE i \in 1..Len(COUNTRY_CODE_DATA) :
                            COUNTRY_CODE_DATA[i].iso3 = code].name>>
    \o ADDITIONAL_COUNTRY_ALIASES(code)

(* the normalized forms of the names of an identity, name by name *)
NameFormsInOrder ==
    [code \in COUNTRY_CODE_TO_INFO |->
        ConcatAll([n \in 1..Len(NamesOfIdentity(code)) |->
                      <<normalize_country_lookup_value(NamesOfIdentity(code)[n]),
                        _normalize_country_name(
                            strip_leading_flag_emoji(NamesOfIdentity(code)[n]))>>])]

(* the positions of the forms the name index has an entry under *)
FormsHeld(code) ==
    {n \in 1..Len(NameFormsInOrder[code]) :
        /\ NameFormsInOrder[code][n] # <<>>
        /\ NameFormsInOrder[code][n] \in DOMAIN video_dataset.by_normalized_name}

(* the positions of the entries whose display name, as written or in upper
   case, has the code as a whole word *)
WordRowsLiteral(code) ==
    {i \in 1..Len(video_dataset.entries) :
        HasWholeWord(video_dataset.entries[i].team_name, code)}
WordRowsUpper(code) ==
    {i \in 1..Len(video_dataset.entries) :
        HasWholeWord(Upper(video_dataset.entries[i].team_name), code)}

(* the answer of the three stages, the third stage scanning the positions
   word_rows: the entry of the identity index; else the entry under the first
   name of the identity that the name index knows; else the first entry of
   word_rows; else null *)
StagedAnswer(code, answer, word_rows) ==
    IF code \in DOMAIN video_dataset.by_code
    THEN answer = Some(video_dataset.by_code[code])
    ELSE IF FormsHeld(code) # {}
    THEN LET first == CHOOSE n \in FormsHeld(code) : \A m \in FormsHeld(code) : n <= m
         IN answer = Some(video_dataset.by_normalized_name[NameFormsInOrder[code][first]])
    ELSE IF word_rows # {}
    THEN answer = Some(video_dataset.entries[CHOOSE i \in word_rows : \A k \in word_rows : i <= k])
    ELSE answer = None

(* C12 as stated: find_video_entry_for_code returns the entry of the identity
   index if there is one, else the first entry found in the name index under
   a normalized display name or alias of the identity, else the first entry
   in catalog order whose display name contains the literal code as a whole
   word, else null. *)
C12_Original ==
    Asked => StagedAnswer(Get(asked), Get(found), WordRowsLiteral(Get(asked)))

(* C12: find_video_entry_for_code returns the entry of the identity index if
   there is one, else the first entry found in the name index under a
   normalized display name or alias of the identity, else the first entry in
   catalog order whose display name in upper case contains the code as a
   whole word, else null; it never raises. *)
C12_LookupOrder ==
    Asked => StagedAnswer(Get(asked), Get(found), WordRowsUpper(Get(asked)))

(* the third stage answered: neither index knows the identity, and the entry
   returned has the code as a word in lower case only *)
C12_Witness ==
    /\ Asked
    /\ Get(asked) \notin DOMAIN video_dataset.by_code
    /\ FormsHeld(Get(asked)) = {}
    /\ ~IsNone(Get(found))
    /\ ~HasWholeWord(Get(Get(found)).team_name, Get(asked))
    /\ Len(video_dataset.entries) > 1

(* the rows read so far that have team text *)
RowsRead == {i \in 1..row_cursor : TeamText(i) # <<>>}

(* the keys a row enters in the name index and in the identity index *)
NameKeysOfText ==
    [t \in {Strip(cell) : cell \in TeamCells} |->
        {normalize_country_lookup_value(t),
         _normalize_country_name(strip_leading_flag_emoji(t))} \ {<<>>}]
CodeKeysOfText ==
    [t \in {Strip(cell) : cell \in TeamCells} |->
        IF IsNone(IsoCandidate(t)) THEN {} ELSE {Get(IsoCandidate(t))}]
NameKeysOfRow(i) == NameKeysOfText[TeamText(i)]
CodeKeysOfRow(i) == CodeKeysOfText[TeamText(i)]

(* the index has exactly the keys the rows read so far produced, each with
   the entry of the earliest row that produced it, an entry of the catalog *)
FirstWriteWins(index, KeysOfRow(_)) ==
    /\ DOMAIN index = UNION {KeysOfRow(i) : i \in RowsRead}
    /\ \A k \in DOMAIN index :
          /\ k \in KeysOfRow(index[k].row_index)
          /\ \A i \in RowsRead : k \in KeysOfRow(i) => index[k].row_index <= i
          /\ \E n \in 1..Len(video_dataset.entries) : video_dataset.entries[n] = index[k]

(* every key of the index before the step has the same entry after it *)
KeptIn(before, after) ==
    \A k \in DOMAIN before : k \in DOMAIN after /\ after[k] = before[k]

(* C13: during the ingestion pass an entry of the identity index or of the
   name index is never replaced, after every row each key has the entry of
   the earliest row that produced the key, and every indexed entry is in the
   entries collection. *)
C13_FirstWriteWins ==
    /\ [](/\ FirstWriteWins(video_dataset.by_code, CodeKeysOfRow)
          /\ FirstWriteWins(video_dataset.by_normalized_name, NameKeysOfRow)
          /\ \A n \in 1..Len(video_dataset.entries) :
                video_dataset.entries[n].row_index \in RowsRead)
    /\ [][/\ KeptIn(video_dataset.by_code, video_dataset'.by_code)
          /\ KeptIn(video_dataset.by_normalized_name, video_dataset'.by_normalized_name)]_vars

(* the pass is over and two rows produced the same key of each index: the
   later row is in the entries collection but not under that key *)
C13_Witness ==
    /\ row_cursor = Len(video_rows)
    /\ \E i, j \in RowsRead :
          /\ i < j
          /\ CodeKeysOfRow(i) \cap CodeKeysOfRow(j) # {}
          /\ NameKeysOfRow(i) \cap NameKeysOfRow(j) # {}

(* the label of a catalog entry names the identity: the whole label resolves
   to it, or the label has its code in brackets or as a word of its own *)
LabelNames(entry, code) ==
    \/ lookup_country_code(TeamText(entry.row_index)) = Some(code)
    \/ ParenCodeInText(TeamText(entry.row_index)) = Some(code)
    \/ HasWholeWord(TeamText(entry.row_index), code)

(* C29 as stated: whenever find_video_entry_for_code(c) returns an entry of
   the ingested catalog, the entry's label names the identity c: a row
   labelled with a country name that has the word "and" in it is not returned
   for the code AND. *)
C29_Original ==
    Asked /\ ~IsNone(Get(found)) => LabelNames(Get(Get(found)), Get(asked))

(* ------------------------------- schedule ------------------------------ *)
(* The values of a schedule record as the JSON decoder gives them: int,
   float (its whole part, and whether it has a fraction, taken to be .5),
   bool, str, None, list and dict.  A dict is the sequence of its
   <<key, value>> pairs in insertion order.  "sup2" is the character
   superscript two: a digit for str.isdigit(), no decimal digit for int()
   and for \d. *)
JInt(n) == [kind |-> "int", int |-> n]
JFloat(n, fraction) == [kind |-> "float", whole |-> n, fraction |-> fraction]
JBool(b) == [kind |-> "bool", bool |-> b]
JStr(s) == [kind |-> "str", str |-> s]
JNull == [kind |-> "null"]
JList(items) == [kind |-> "list", items |-> items]
JDict(pairs) == [kind |-> "dict", pairs |-> pairs]

(* key in d, d[key], d.get(key), d.keys() *)
HasKey(d, key) == \E i \in 1..Len(d.pairs) : d.pairs[i][1] = key
DictValue(d, key) == d.pairs[CHOOSE i \in 1..Len(d.pairs) : d.pairs[i][1] = key][2]
MatchGet(d, key) == IF HasKey(d, key) THEN DictValue(d, key) ELSE JNull
Keys(d) == {d.pairs[i][1] : i \in 1..Len(d.pairs)}

(* str.isdigit() is true of a character *)
IsDigitChar(c) == c \in DecimalChars \cup {"sup2"}

Digits == <<"0", "1", "2", "3", "4", "5", "6", "7", "8", "9">>
DigitValue(c) == (CHOOSE i \in 1..Len(Digits) : Digits[i] = c) - 1

(* int(s) of a str of decimal digits *)
RECURSIVE DecimalValue(_)
DecimalValue(s) ==
    IF s = <<>> THEN 0
    ELSE 10 * DecimalValue(SubSeq(s, 1, Len(s) - 1)) + DigitValue(s[Len(s)])

(* str(n) of an int that is not negative *)
RECURSIVE IntText(_)
IntText(n) ==
    IF n < 10 THEN <<Digits[n + 1]>> ELSE Append(IntText(n \div 10), Digits[(n % 10) + 1])

(* re.findall(r"\d+", s)[-1]: the last run of decimal digits, <<>> if none *)
LastDigitRun(s) ==
    LET ends == {i \in 1..Len(s) : s[i] \in DecimalChars}
    IN IF ends = {} THEN <<>>
       ELSE LET last == CHOOSE e \in ends : \A k \in ends : k <= e
                first == CHOOSE b \in 1..last :
                             /\ \A k \in b..last : s[k] \in DecimalChars
                             /\ b = 1 \/ s[b - 1] \notin DecimalChars
            IN SubSeq(s, first, last)

(* what a call gave: an optional number, or a ValueError *)
Returning(number) == [raised |-> FALSE, number |-> number]
RaisingValueError == [raised |-> TRUE, number |-> None]

(* int(stripped): a ValueError unless every character is a decimal digit *)
IntOf(stripped) ==
    IF \A i \in 1..Len(stripped) : stripped[i] \in DecimalChars
    THEN Returning(Some(DecimalValue(stripped)))
    ELSE RaisingValueError

(* the str branch of _coerce_match_number *)
CoerceText(value) ==
    LET stripped == Strip(value)
    IN IF stripped = <<>> THEN Returning(None)
       ELSE IF \A i \in 1..Len(stripped) : IsDigitChar(stripped[i])
            THEN IntOf(stripped)
       ELSE IF LastDigitRun(stripped) # <<>>
            THEN Returning(Some(DecimalValue(LastDigitRun(stripped))))
       ELSE Returning(None)

_coerce_match_number(value) ==
    CASE value.kind = "bool" -> Returning(None)
      [] value.kind = "int" -> Returning(Some(value.int))
      [] value.kind = "float" ->
            IF ~value.fraction THEN Returning(Some(value.whole)) ELSE Returning(None)
      [] value.kind = "str" -> CoerceText(value.str)
      [] OTHER -> Returning(None)

(* the keys extract_match_number tries, the two fallback keys last *)
MatchNumberKeys ==
    <<"matchNumber", "match_number", "matchNumberDisplay", "matchnumber", "matchNo", "id",
      "matchKey", "match">>

RECURSIVE NumberFromKeys(_, _)
NumberFromKeys(match, i) ==
    IF i > Len(MatchNumberKeys) THEN Returning(None)
    ELSE LET number == _coerce_match_number(MatchGet(match, MatchNumberKeys[i]))
         IN IF number.raised \/ ~IsNone(number.number) THEN number
            ELSE NumberFromKeys(match, i + 1)

extract_match_number(match) == NumberFromKeys(match, 1)

(* _format_value of describe_match *)
FormatValue(value) ==
    CASE value.kind = "int" -> Some(IntText(value.int))
      [] value.kind = "float" ->
            IF value.fraction THEN Some(IntText(value.whole) \o <<".", "5">>)
            ELSE Some(IntText(value.whole))
      [] value.kind = "str" -> IF Strip(value.str) # <<>> THEN Some(Strip(value.str)) ELSE None
      [] OTHER -> None

(* the keys of the model's records in the order sorted() gives them *)
SortedKeyOrder ==
    <<"countries", "country", "countryCode", "id", "match", "matchNumber", "name", "teams",
      "venue">>

(* label=text of the first of the labels that has a formatted value *)
FirstLabelled(match, labels) ==
    LET hits == {i \in 1..Len(labels) : ~IsNone(FormatValue(MatchGet(match, labels[i])))}
    IN IF hits = {} THEN <<>>
       ELSE LET i == CHOOSE h \in hits : \A k \in hits : h <= k
            IN <<[label |-> labels[i], text |-> Get(FormatValue(MatchGet(match, labels[i])))]>>

(* describe_match: the labelled details, or else the sorted keys *)
describe_match(match) ==
    LET details == FirstLabelled(match, <<"matchKey", "description", "name", "id">>)
                   \o FirstLabelled(match, <<"scheduledTime">>)
                   \o FirstLabelled(match, <<"field">>)
    IN [details |-> details,
        keys |-> IF details = <<>> THEN SelectSeq(SortedKeyOrder, LAMBDA k : HasKey(match, k))
                 ELSE <<>>]

(* what the walk has collected *)
EmptyWalk == [raw_values |-> <<>>, codes_ordered |-> <<>>]

(* a str leaf that is entered again although its code was seen *)
VisitStrAgain(acc, value) ==
    LET iso3_candidate == normalize_country_code(value)
    IN IF IsNone(iso3_candidate) THEN acc
       ELSE [raw_values |-> Append(acc.raw_values, Strip(value)),
             codes_ordered |-> Append(acc.codes_ordered, Get(iso3_candidate))]

(* visit of a str: a token that normalizes is entered in raw_values and its
   code in codes_ordered, each unless seen before *)
VisitStr(acc, value) ==
    LET iso3_candidate == normalize_country_code(value)
        stripped == Strip(value)
    IN IF IsNone(iso3_candidate) THEN acc
       ELSE [raw_values |->
                 IF stripped # <<>> /\ ~Contains(acc.raw_values, stripped)
                 THEN Append(acc.raw_values, stripped) ELSE acc.raw_values,
             codes_ordered |->
                 IF ~Contains(acc.codes_ordered, Get(iso3_candidate))
                 THEN Append(acc.codes_ordered, Get(iso3_candidate)) ELSE acc.codes_ordered]

VisitDepthLimit == 6
CountryKeys == <<"country", "countryCode", "country_code", "countrycode", "teamCountry">>

(* visit(value, depth) and its three loops *)
RECURSIVE visit(_, _, _), VisitCountryKeys(_, _, _, _), VisitSubValues(_, _, _, _),
          VisitItems(_, _, _, _)
visit(acc, value, depth) ==
    IF depth > VisitDepthLimit THEN acc
    ELSE CASE value.kind = "str" -> VisitStr(acc, value.str)
           [] value.kind = "dict" ->
                 VisitSubValues(VisitCountryKeys(acc, value, depth, 1), value, depth, 1)
           [] value.kind = "list" -> VisitItems(acc, value.items, depth, 1)
           [] OTHER -> acc

VisitCountryKeys(acc, value, depth, i) ==
    IF i > Len(CountryKeys) THEN acc
    ELSE VisitCountryKeys(IF HasKey(value, CountryKeys[i])
                          THEN visit(acc, DictValue(value, CountryKeys[i]), depth + 1)
                          ELSE acc,
                          value, depth, i + 1)

VisitSubValues(acc, value, depth, i) ==
    IF i > Len(value.pairs) THEN acc
    ELSE VisitSubValues(IF value.pairs[i][2].kind \in {"list", "dict"}
                        THEN visit(acc, value.pairs[i][2], depth + 1)
                        ELSE acc,
                        value, depth, i + 1)

VisitItems(acc, items, depth, i) ==
    IF i > Len(items) THEN acc
    ELSE VisitItems(visit(acc, items[i], depth + 1), items, depth, i + 1)

ScheduleKeys ==
    <<"countries", "countryCodes", "teams", "participants", "alliances",
      "blueAllianceTeams", "redAllianceTeams">>

(* for key in (...): if key in match: visit(match[key]) *)
RECURSIVE VisitScheduleKeys(_, _, _)
VisitScheduleKeys(acc, match, i) ==
    IF i > Len(ScheduleKeys) THEN acc
    ELSE VisitScheduleKeys(IF HasKey(match, ScheduleKeys[i])
                           THEN visit(acc, DictValue(match, ScheduleKeys[i]), 0)
                           ELSE acc,
                           match, i + 1)

(* for value in match.values(): the lists and the mappings are visited *)
RECURSIVE VisitContainers(_, _, _)
VisitContainers(acc, match, i) ==
    IF i > Len(match.pairs) THEN acc
    ELSE VisitContainers(IF match.pairs[i][2].kind \in {"list", "dict"}
                         THEN visit(acc, match.pairs[i][2], 0)
                         ELSE acc,
                         match, i + 1)

_extract_countries_from_match(match) ==
    LET keyed == VisitScheduleKeys(EmptyWalk, match, 1)
    IN IF keyed.codes_ordered = <<>> THEN VisitContainers(keyed, match, 1) ELSE keyed

(* the three lines build_match_country_map writes on the console for a match *)
UnrecognizedName(code) == <<"(", "u", "n", "r", "e", "c", "o", "g", "n", "i", "z", "e", "d", " ">> \o code \o <<")">>

DisplayNames(countries) ==
    [i \in 1..Len(countries) |->
        IF IsNone(get_country_display_name(countries[i])) THEN UnrecognizedName(countries[i])
        ELSE Get(get_country_display_name(countries[i]))]

MatchLogLines(match_number, walk) ==
    <<[line |-> "raw country values", match |-> match_number, listed |-> walk.raw_values],
      [line |-> "normalized country codes", match |-> match_number,
       listed |-> walk.codes_ordered],
      [line |-> "display country names", match |-> match_number,
       listed |-> DisplayNames(walk.codes_ordered)]>>

(* the two diagnostics of build_match_country_map *)
MissingNumberDiagnostic(match) ==
    [kind |-> "missing match number", match |-> None, details |-> describe_match(match)]
NoCountriesDiagnostic(match_number, match) ==
    [kind |-> "no country entries", match |-> Some(match_number),
     details |-> describe_match(match)]

(* fault variant of MapCountries: the list of a later record of the same
   match number is added to the list the map has *)
MapCountriesMerged(mapping, match_number, countries) ==
    DictPut(mapping, match_number,
            (IF match_number \in DOMAIN mapping THEN mapping[match_number] ELSE <<>>)
            \o countries)

(* mapping[match_number] = countries *)
MapCountries(mapping, match_number, countries) == DictPut(mapping, match_number, countries)

(* build_match_country_map reads the records of the schedule one by one *)
MaxScheduleRecords == 3

(* a list that holds value, nested in n further lists *)
RECURSIVE Nested(_, _)
Nested(value, n) == IF n = 0 THEN JList(<<value>>) ELSE JList(<<Nested(value, n - 1)>>)

ScheduleRecords ==
    {JDict(<< <<"matchNumber", JInt(2)>>,
              <<"countries", JList(<<JStr(<<"U", "S", "A">>), JStr(<<"k", "r">>), JStr(<<" ", "u", "s", "a", " ">>), JStr(<<"U", "S">>),
                                     JStr(<<"Z", "Z", "Z">>)>>)>> >>),
     JDict(<< <<"matchNumber", JStr(<<"Q", "2">>)>>, <<"countries", JList(<<JStr(<<"Z", "Z", "Z">>)>>)>>,
              <<"venue", JInt(7)>> >>),
     JDict(<< <<"id", JStr(<<"F", "1", "2">>)>>,
              <<"teams", JList(<<JDict(<< <<"country", JStr(<<"K", "O", "R">>)>>,
                                          <<"name", JStr(<<"U", "S", "A">>)>> >>),
                                 JDict(<< <<"countryCode",
                                            JList(<<JStr(<<"C", "Z", "E">>), JStr(<<"K", "O", "R">>)>>)>> >>)>>)>> >>),
     JDict(<< <<"matchNumber", JBool(TRUE)>>, <<"match", JStr(<<" ", " ">>)>> >>),
     JDict(<< <<"matchNumber", JStr(<<"sup2">>)>>, <<"countries", JList(<<JStr(<<"U", "S", "A">>)>>)>> >>),
     JDict(<< <<"matchNumber", JFloat(12, FALSE)>>,
              <<"venue", JDict(<< <<"name", JList(<<JStr(<<"c", "z">>), JStr(<<"U", "S", "A">>)>>)>> >>)>> >>),
     JInt(5),
     JDict(<< <<"matchNumber", JInt(2)>>, <<"countries", JStr(<<"C", "Z", "E">>)>>,
              <<"teams", JList(<<JStr(<<"K", "O", "R">>)>>)>> >>),
     JDict(<< <<"matchNumber", JInt(12)>>, <<"countries", Nested(JStr(<<"U", "S", "A">>), 6)>>,
              <<"teams", Nested(JStr(<<"K", "O", "R">>), 5)>> >>)}

Schedules == UNION {[1..n -> ScheduleRecords] : n \in 0..MaxScheduleRecords}

(* everything but the schedule *)
beside_schedule == <<engine, normalizer, ingestion, collector>>

InitSchedule ==
    /\ IdleEngine
    /\ IdleNormalizer
    /\ IdleIngestion
    /\ IdleCollector
    /\ schedule \in Schedules
    /\ importer_console \in BOOLEAN
    /\ record_cursor = 0
    /\ country_map = <<>>
    /\ schedule_diagnostics = <<>>
    /\ schedule_log = <<>>
    /\ walked = None
    /\ schedule_pc = "loop"

(* one turn of `for match in matches` *)
ReadRecord ==
    /\ schedule_pc = "loop"
    /\ record_cursor < Len(schedule)
    /\ LET match == schedule[record_cursor + 1]
           match_number == extract_match_number(match)
           walk == _extract_countries_from_match(match)
       IN IF match.kind # "dict"
          THEN /\ record_cursor' = record_cursor + 1
               /\ walked' = None
               /\ UNCHANGED <<country_map, schedule_diagnostics, schedule_log, schedule_pc>>
          ELSE IF match_number.raised
          THEN /\ schedule_pc' = "raised"
               /\ UNCHANGED <<record_cursor, country_map, schedule_diagnostics, schedule_log,
                              walked>>
          ELSE IF IsNone(match_number.number)
          THEN /\ record_cursor' = record_cursor + 1
               /\ schedule_diagnostics' =
                      Append(schedule_diagnostics, MissingNumberDiagnostic(match))
               /\ walked' = None
               /\ UNCHANGED <<country_map, schedule_log, schedule_pc>>
          ELSE /\ record_cursor' = record_cursor + 1
               /\ walked' = Some(walk)
               /\ schedule_log' =
                      IF importer_console
                      THEN schedule_log \o MatchLogLines(Get(match_number.number), walk)
                      ELSE schedule_log
               /\ IF walk.codes_ordered = <<>>
                  THEN /\ schedule_diagnostics' =
                              Append(schedule_diagnostics,
                                     NoCountriesDiagnostic(Get(match_number.number), match))
                       /\ UNCHANGED country_map
                  ELSE /\ country_map' =
                              MapCountries(country_map, Get(match_number.number),
                                           walk.codes_ordered)
                       /\ UNCHANGED schedule_diagnostics
               /\ UNCHANGED schedule_pc
    /\ UNCHANGED <<beside_schedule, schedule, importer_console>>

(* return mapping, diagnostics *)
ReturnMap ==
    /\ schedule_pc = "loop"
    /\ record_cursor = Len(schedule)
    /\ schedule_pc' = "returned"
    /\ UNCHANGED <<beside_schedule, schedule, importer_console, record_cursor, country_map,
                   schedule_diagnostics, schedule_log, walked>>

NextSchedule ==
    \/ ReadRecord
    \/ ReturnMap

SpecSchedule == InitSchedule /\ [][NextSchedule]_vars

(* ------------------------- claims: schedule map ------------------------ *)
(* the strs the walk of a value comes to, in the order it comes to them *)
RECURSIVE LeavesOf(_, _)
LeavesOf(value, depth) ==
    IF depth > VisitDepthLimit THEN <<>>
    ELSE CASE value.kind = "str" -> <<value.str>>
           [] value.kind = "list" ->
                 ConcatAll([i \in 1..Len(value.items) |-> LeavesOf(value.items[i], depth + 1)])
           [] value.kind = "dict" ->
                 ConcatAll([i \in 1..Len(CountryKeys) |->
                               IF HasKey(value, CountryKeys[i])
                               THEN LeavesOf(DictValue(value, CountryKeys[i]), depth + 1)
                               ELSE <<>>])
                 \o ConcatAll([i \in 1..Len(value.pairs) |->
                                  IF value.pairs[i][2].kind \in {"list", "dict"}
                                  THEN LeavesOf(value.pairs[i][2], depth + 1)
                                  ELSE <<>>])
           [] OTHER -> <<>>

(* the positions of the tokens among leaves: the strs that normalize *)
Tokens(leaves) == {k \in 1..Len(leaves) : ~IsNone(normalize_country_code(leaves[k]))}

(* the walk of a record: the values under the schedule keys, and every list
   and mapping of the record as well when these have no token *)
WalkOf(match) ==
    LET keyed == ConcatAll([i \in 1..Len(ScheduleKeys) |->
                               IF HasKey(match, ScheduleKeys[i])
                               THEN LeavesOf(DictValue(match, ScheduleKeys[i]), 0)
                               ELSE <<>>])
    IN IF Tokens(keyed) # {} THEN keyed
       ELSE keyed \o ConcatAll([i \in 1..Len(match.pairs) |->
                                   IF match.pairs[i][2].kind \in {"list", "dict"}
                                   THEN LeavesOf(match.pairs[i][2], 0)
                                   ELSE <<>>])

(* the records read so far that are mappings, those of them no match number
   can be extracted from, and those with a number and no resolvable token *)
MappingsRead == {i \in 1..record_cursor : schedule[i].kind = "dict"}
NumberOf(i) == extract_match_number(schedule[i]).number
WithoutNumber == {i \in MappingsRead : IsNone(NumberOf(i))}
WithoutTokens ==
    {i \in MappingsRead : ~IsNone(NumberOf(i)) /\ Tokens(WalkOf(schedule[i])) = {}}
WithTokens ==
    {i \in MappingsRead : ~IsNone(NumberOf(i)) /\ Tokens(WalkOf(schedule[i])) # {}}

(* the diagnostics are those of the bad records, one each, in record order *)
OneDiagnosticEach ==
    /\ Len(schedule_diagnostics) = Cardinality(WithoutNumber \cup WithoutTokens)
    /\ \A i \in WithoutNumber \cup WithoutTokens :
          LET d == schedule_diagnostics[Cardinality({k \in WithoutNumber \cup WithoutTokens :
                                                        k <= i})]
          IN IF i \in WithoutNumber THEN d.kind = "missing match number" /\ IsNone(d.match)
             ELSE d.kind = "no country entries" /\ d.match = NumberOf(i)

(* C14 as stated: build_match_country_map does not fail; a record without an
   extractable match number adds one diagnostic and no map entry; a record
   with a match number and no resolvable country token adds one diagnostic
   and its match number is not a key of the map; every key of the map has a
   non-empty list. *)
C14_Original ==
    /\ schedule_pc # "raised"
    /\ OneDiagnosticEach
    /\ DOMAIN country_map \subseteq {Get(NumberOf(i)) : i \in WithTokens}
    /\ \A i \in WithoutTokens : Get(NumberOf(i)) \notin DOMAIN country_map
    /\ \A n \in DOMAIN country_map : country_map[n] # <<>>

(* what of C14 holds while no record has made the function raise: one
   diagnostic for each bad record, no map entry from a bad record, and no
   empty list in the map *)
C14_SkipsWhenNumbersAreDecimal ==
    schedule_pc # "raised" =>
        /\ OneDiagnosticEach
        /\ DOMAIN country_map = {Get(NumberOf(i)) : i \in WithTokens}
        /\ \A n \in DOMAIN country_map : country_map[n] # <<>>

(* a list names no identity twice, names identities of the enumeration only,
   and names the identities of the tokens of leaves in the order in which
   each first occurs *)
FirstToken(leaves, code) ==
    CHOOSE k \in Tokens(leaves) :
        /\ normalize_country_code(leaves[k]) = Some(code)
        /\ \A m \in Tokens(leaves) : normalize_country_code(leaves[m]) = Some(code) => k <= m

OrderedDeduplicated(countries, leaves) ==
    /\ \A i, j \in 1..Len(countries) : i # j => countries[i] # countries[j]
    /\ \A i \in 1..Len(countries) : countries[i] \in COUNTRY_CODE_TO_INFO
    /\ Range(countries) = {Get(normalize_country_code(leaves[k])) : k \in Tokens(leaves)}
    /\ \A i, j \in 1..Len(countries) :
          i < j => FirstToken(leaves, countries[i]) < FirstToken(leaves, countries[j])

(* the record of the turn just taken was walked *)
Walked == ~IsNone(walked) /\ record_cursor > 0

(* C15: the country list the walk of a record gives, which is the list the
   map gets for the record's match, names no identity twice, names canonical
   alpha-3 codes of the enumeration only, and keeps the identities in the
   order of their first occurrence in the walk. *)
C15_OrderedDeduplicatedLists ==
    /\ Walked =>
          /\ OrderedDeduplicated(Get(walked).codes_ordered, WalkOf(schedule[record_cursor]))
          /\ Get(walked).codes_ordered # <<>> =>
                country_map[Get(NumberOf(record_cursor))] = Get(walked).codes_ordered
    /\ \A n \in DOMAIN country_map :
          /\ \A i, j \in 1..Len(country_map[n]) : i # j => country_map[n][i] # country_map[n][j]
          /\ \A i \in 1..Len(country_map[n]) : country_map[n][i] \in COUNTRY_CODE_TO_INFO

(* the walk came to a token of an identity it had already listed, and listed
   a second identity after it *)
C15_Witness ==
    /\ Walked
    /\ Len(Get(walked).codes_ordered) >= 2
    /\ Cardinality(Tokens(WalkOf(schedule[record_cursor]))) > Len(Get(walked).codes_ordered)
    /\ Get(NumberOf(record_cursor)) \in DOMAIN country_map

(* the records read so far that gave the match number n a country list, and
   the last of them *)
ListedFor(n) == {i \in WithTokens : NumberOf(i) = Some(n)}
LastListedFor(n) == CHOOSE i \in ListedFor(n) : \A k \in ListedFor(n) : k <= i

(* C30: duplicate match numbers.  Whatever records have been read, the map
   has for a match number the country list of the last record read so far
   that yields this number and has a resolvable country: the list of an
   earlier record of the number is replaced, not merged, and a later record of
   the number without a resolvable country leaves the entry in place. *)
C30_LastListedRecordWins ==
    schedule_pc # "raised" =>
        /\ DOMAIN country_map = {Get(NumberOf(i)) : i \in WithTokens}
        /\ \A n \in DOMAIN country_map :
              country_map[n] =
                  _extract_countries_from_match(schedule[LastListedFor(n)]).codes_ordered

(* three records of one match number were read: the second with another list
   than the first, the third without a resolvable country *)
C30_Witness ==
    /\ schedule_pc = "returned"
    /\ record_cursor = 3
    /\ \A i \in 1..3 : schedule[i].kind = "dict" /\ NumberOf(i) = Some(2)
    /\ WithTokens = {1, 2}
    /\ _extract_countries_from_match(schedule[1]).codes_ordered
          # _extract_countries_from_match(schedule[2]).codes_ordered
    /\ country_map[2] = _extract_countries_from_match(schedule[2]).codes_ordered

(* ---------------------------- slot collection -------------------------- *)
(* collect_team_video_slots reads the task column of every sheet that has a
   TASK header.  A sheet of the model is its title, the column of its TASK
   header (None when it has none) and the texts of the task cells of the
   rows below the header row, row 1 first; no cell is a video-number or a
   duration header. *)

(* RANKING_MATCH_NUMBER_PATTERN matched at position i: the digits of group 1,
   <<>> when the pattern does not match there *)
RankingMatchDigitsAt(text, i) ==
    IF ~MatchesFoldAt(text, i, <<"r", "a", "n", "k", "i", "n", "g", " ", "m", "a", "t", "c", "h">>) THEN <<>>
    ELSE LET after_words == i + Len(<<"r", "a", "n", "k", "i", "n", "g", " ", "m", "a", "t", "c", "h">>)
             after_space == after_words + RunLength(text, after_words, {" "})
             after_hash == IF after_space <= Len(text) /\ text[after_space] = "#"
                           THEN after_space + 1 ELSE after_space
             digits_from == after_hash + RunLength(text, after_hash, {" "})
         IN SubSeq(text, digits_from, digits_from + RunLength(text, digits_from, DecimalChars) - 1)

(* _extract_match_number_from_text: int(group 1) of the leftmost match *)
_extract_match_number_from_text(text) ==
    LET hits == {i \in 1..Len(text) : RankingMatchDigitsAt(text, i) # <<>>}
    IN IF hits = {} THEN None
       ELSE Some(DecimalValue(RankingMatchDigitsAt(text, CHOOSE i \in hits :
                                                              \A k \in hits : i <= k)))

(* the column to the left of the task column, and the one left of that *)
HeaderVideoColumn(task_column) == IF task_column > 0 THEN Some(task_column - 1) ELSE None
HeaderDurationColumn(task_column) == IF task_column > 1 THEN Some(task_column - 2) ELSE None

(* the slots of the pending rows, every one with placeholder_index 0 *)
SlotsOfPendingUnindexed(title, task_column, match_number, pending) ==
    [i \in 1..Len(pending) |->
        [sheet_title |-> title, row_index |-> pending[i][1], task_column |-> task_column,
         match_number |-> match_number, placeholder_index |-> 0,
         video_number_column |-> HeaderVideoColumn(task_column),
         duration_column |-> HeaderDurationColumn(task_column)]]

(* for placeholder_index, (placeholder_row, _) in enumerate(pending) *)
SlotsOfPending(title, task_column, match_number, pending) ==
    [i \in 1..Len(pending) |->
        [sheet_title |-> title, row_index |-> pending[i][1], task_column |-> task_column,
         match_number |-> match_number, placeholder_index |-> i - 1,
         video_number_column |-> HeaderVideoColumn(task_column),
         duration_column |-> HeaderDurationColumn(task_column)]]

(* the titles of the model's sheets in the order of str comparison *)
TitleOrder == <<"AWARDS", "ROS">>
TitleRank(title) == CHOOSE i \in 1..Len(TitleOrder) : TitleOrder[i] = title

(* (sheet_title, row_index, placeholder_index) of a before that of b *)
SlotKeyLess(a, b) ==
    \/ TitleRank(a.sheet_title) < TitleRank(b.sheet_title)
    \/ /\ a.sheet_title = b.sheet_title
       /\ \/ a.row_index < b.row_index
          \/ a.row_index = b.row_index /\ a.placeholder_index < b.placeholder_index

(* fault variant of SortSlots: the list stays in the order of the scan *)
UnsortedSlots(slot_list) == slot_list

(* slots.sort(key=...): a stable sort *)
RECURSIVE SortSlots(_)
SortSlots(slot_list) ==
    IF slot_list = <<>> THEN <<>>
    ELSE LET sorted == SortSlots(SubSeq(slot_list, 1, Len(slot_list) - 1))
             last == slot_list[Len(slot_list)]
             before == Cardinality({i \in 1..Len(sorted) : ~SlotKeyLess(last, sorted[i])})
         IN SubSeq(sorted, 1, before) \o <<last>> \o SubSeq(sorted, before + 1, Len(sorted))

MaxTaskRows == 4

Placeholder == <<"T", "E", "A", "M", " ", "V", "I", "D", "E", "O", " ", "P", "L", "A", "C", "E", "H", "O", "L", "D", "E", "R">>

TaskCells ==
    {Placeholder, <<"R", "A", "N", "K", "I", "N", "G", " ", "M", "A", "T", "C", "H", " ", "5">>, <<"R", "a", "n", "k", "i", "n", "g", " ", "m", "a", "t", "c", "h", " ", "#", "1", "2">>, <<"R", "A", "N", "K", "I", "N", "G", " ", "M", "A", "T", "C", "H">>, <<"I", "n", "t", "r", "o">>}

(* the sheet under test, and the sheets that can stand beside it *)
MainSheets ==
    {[title |-> "ROS", task_column |-> Some(c), cells |-> cells] :
        c \in {0, 2},
        cells \in UNION {[1..n -> TaskCells] : n \in 0..MaxTaskRows}}

OtherSheets ==
    {[title |-> "AWARDS", task_column |-> None,
      cells |-> <<Placeholder, <<"R", "A", "N", "K", "I", "N", "G", " ", "M", "A", "T", "C", "H", " ", "5">>>>],
     [title |-> "AWARDS", task_column |-> Some(1),
      cells |-> <<<<"t", "e", "a", "m", " ", "v", "i", "d", "e", "o", " ", "p", "l", "a", "c", "e", "h", "o", "l", "d", "e", "r", " ", "2">>, <<>>, <<"r", "a", "n", "k", "i", "n", "g", " ", "m", "a", "t", "c", "h", " ", "5", " ", "o", "f", " ", "1", "2">>>>]}

Spreadsheets ==
    {<<main>> : main \in MainSheets}
    \cup {<<main, other>> : main \in MainSheets, other \in OtherSheets}
    \cup {<<other, main>> : main \in MainSheets, other \in OtherSheets}

(* everything but the slot collection *)
beside_collector == <<engine, normalizer, ingestion, schedule_map>>

InitSlots ==
    /\ IdleEngine
    /\ IdleNormalizer
    /\ IdleIngestion
    /\ IdleSchedule
    /\ spreadsheet \in Spreadsheets
    /\ sheet_cursor = 0
    /\ task_row = 0
    /\ pending_rows = <<>>
    /\ found_slots = <<>>
    /\ slot_diagnostics = <<>>
    /\ collector_pc = "sheets"

(* one turn of `for sheet in spreadsheet.get("sheets", [])` up to the loop
   over the rows: a sheet without TASK header is passed over *)
OpenSheet ==
    /\ collector_pc = "sheets"
    /\ sheet_cursor < Len(spreadsheet)
    /\ sheet_cursor' = sheet_cursor + 1
    /\ task_row' = 0
    /\ pending_rows' = <<>>
    /\ collector_pc' = IF IsNone(spreadsheet[sheet_cursor + 1].task_column) THEN "sheets"
                       ELSE "rows"
    /\ UNCHANGED <<beside_collector, spreadsheet, found_slots, slot_diagnostics>>

(* one turn of `for row_index, columns in rows` *)
ReadTaskRow ==
    /\ collector_pc = "rows"
    /\ task_row < Len(spreadsheet[sheet_cursor].cells)
    /\ task_row' = task_row + 1
    /\ LET sheet == spreadsheet[sheet_cursor]
           row_index == task_row + 1
           normalized == Strip(sheet.cells[row_index])
           upper == Upper(normalized)
           match_number == _extract_match_number_from_text(normalized)
       IN IF normalized = <<>>
          THEN UNCHANGED <<pending_rows, found_slots, slot_diagnostics>>
          ELSE IF MatchesAt(upper, 1, Placeholder)
          THEN /\ pending_rows' = Append(pending_rows, <<row_index, normalized>>)
               /\ UNCHANGED <<found_slots, slot_diagnostics>>
          ELSE IF ~MatchesAt(upper, 1, <<"R", "A", "N", "K", "I", "N", "G", " ", "M", "A", "T", "C", "H">>)
          THEN UNCHANGED <<pending_rows, found_slots, slot_diagnostics>>
          ELSE IF IsNone(match_number)
          THEN /\ slot_diagnostics' =
                      Append(slot_diagnostics,
                             [kind |-> "no match number", sheet |-> sheet.title,
                              text |-> normalized, rows |-> 0])
               /\ pending_rows' = <<>>
               /\ UNCHANGED found_slots
          ELSE /\ found_slots' =
                      found_slots \o SlotsOfPending(sheet.title, Get(sheet.task_column),
                                                    Get(match_number), pending_rows)
               /\ pending_rows' = <<>>
               /\ UNCHANGED slot_diagnostics
    /\ UNCHANGED <<beside_collector, spreadsheet, sheet_cursor, collector_pc>>

(* the end of the rows of a sheet: `if pending:` *)
CloseSheet ==
    /\ collector_pc = "rows"
    /\ task_row = Len(spreadsheet[sheet_cursor].cells)
    /\ slot_diagnostics' =
           IF pending_rows # <<>>
           THEN Append(slot_diagnostics,
                       [kind |-> "placeholders ignored", sheet |-> spreadsheet[sheet_cursor].title,
                        text |-> <<>>, rows |-> Len(pending_rows)])
           ELSE slot_diagnostics
    /\ collector_pc' = "sheets"
    /\ UNCHANGED <<beside_collector, spreadsheet, sheet_cursor, task_row, pending_rows,
                   found_slots>>

(* slots.sort(...); return slots, diagnostics *)
ReturnSlots ==
    /\ collector_pc = "sheets"
    /\ sheet_cursor = Len(spreadsheet)
    /\ found_slots' = SortSlots(found_slots)
    /\ collector_pc' = "returned"
    /\ UNCHANGED <<beside_collector, spreadsheet, sheet_cursor, task_row, pending_rows,
                   slot_diagnostics>>

NextSlots ==
    \/ OpenSheet
    \/ ReadTaskRow
    \/ CloseSheet
    \/ ReturnSlots

SpecSlots == InitSlots /\ [][NextSlots]_vars

(* ------------------------ claims: slot collection ---------------------- *)
(* collect_team_video_slots has returned the slot list *)
SlotsReturned == collector_pc = "returned"

(* the sheet a slot is on *)
SheetOf(slot) ==
    spreadsheet[CHOOSE k \in 1..Len(spreadsheet) : spreadsheet[k].title = slot.sheet_title]

(* the first RANKING MATCH row below the row of a slot *)
MatchRowOf(slot) ==
    CHOOSE r \in (slot.row_index + 1)..Len(SheetOf(slot).cells) :
        /\ MatchesAt(Upper(Strip(SheetOf(slot).cells[r])), 1, <<"R", "A", "N", "K", "I", "N", "G", " ", "M", "A", "T", "C", "H">>)
        /\ \A q \in (slot.row_index + 1)..(r - 1) :
              ~MatchesAt(Upper(Strip(SheetOf(slot).cells[q])), 1, <<"R", "A", "N", "K", "I", "N", "G", " ", "M", "A", "T", "C", "H">>)

(* the slots of the list that stand before slot among those that share its
   sheet and its match number, and among those that share its sheet and the
   RANKING MATCH row it precedes *)
EarlierOfMatch(slot) ==
    {i \in 1..Len(found_slots) :
        /\ found_slots[i].sheet_title = slot.sheet_title
        /\ found_slots[i].match_number = slot.match_number
        /\ found_slots[i].row_index < slot.row_index}
EarlierOfMatchRow(slot) ==
    {i \in 1..Len(found_slots) :
        /\ found_slots[i].sheet_title = slot.sheet_title
        /\ MatchRowOf(found_slots[i]) = MatchRowOf(slot)
        /\ found_slots[i].row_index < slot.row_index}

(* C16 as stated: in the returned slot list each slot's placeholder_index is
   its zero-based position among the slots that share its match number, and
   no two slots of one match on one sheet have the same placeholder_index. *)
C16_Original ==
    SlotsReturned =>
        /\ \A i \in 1..Len(found_slots) :
              found_slots[i].placeholder_index = Cardinality(EarlierOfMatch(found_slots[i]))
        /\ \A i, j \in 1..Len(found_slots) :
              /\ i # j
              /\ found_slots[i].sheet_title = found_slots[j].sheet_title
              /\ found_slots[i].match_number = found_slots[j].match_number
              => found_slots[i].placeholder_index # found_slots[j].placeholder_index

(* C16: in the returned slot list each slot's placeholder_index is its
   zero-based position among the slots of its sheet that precede the same
   RANKING MATCH row, whose number is the slot's match number; no two slots
   before one RANKING MATCH row have the same placeholder_index. *)
C16_IndexWithinMatchRow ==
    SlotsReturned =>
        /\ \A i \in 1..Len(found_slots) :
              /\ found_slots[i].placeholder_index =
                     Cardinality(EarlierOfMatchRow(found_slots[i]))
              /\ Some(found_slots[i].match_number) =
                     _extract_match_number_from_text(
                         Strip(SheetOf(found_slots[i]).cells[MatchRowOf(found_slots[i])]))
        /\ \A i, j \in 1..Len(found_slots) :
              /\ i # j
              /\ found_slots[i].sheet_title = found_slots[j].sheet_title
              /\ MatchRowOf(found_slots[i]) = MatchRowOf(found_slots[j])
              => found_slots[i].placeholder_index # found_slots[j].placeholder_index

(* a sheet names one match in two RANKING MATCH rows: the returned list has
   two slots of that sheet and match, one before each row, with the same
   placeholder_index *)
C16_Witness ==
    /\ SlotsReturned
    /\ \E i, j \in 1..Len(found_slots) :
          /\ i # j
          /\ found_slots[i].sheet_title = found_slots[j].sheet_title
          /\ found_slots[i].match_number = found_slots[j].match_number
          /\ found_slots[i].placeholder_index = found_slots[j].placeholder_index
          /\ MatchRowOf(found_slots[i]) # MatchRowOf(found_slots[j])

(* the rows of a sheet whose task cell is a placeholder, those whose task cell
   is a RANKING MATCH cell, and the RANKING MATCH rows below a row *)
TaskText(sheet, r) == Strip(sheet.cells[r])
PlaceholderRows(sheet) ==
    {r \in 1..Len(sheet.cells) : MatchesAt(Upper(TaskText(sheet, r)), 1, Placeholder)}
RankingMatchRows(sheet) ==
    {r \in 1..Len(sheet.cells) : MatchesAt(Upper(TaskText(sheet, r)), 1, <<"R", "A", "N", "K", "I", "N", "G", " ", "M", "A", "T", "C", "H">>)}
RankingMatchRowsBelow(sheet, r) == {q \in RankingMatchRows(sheet) : q > r}

(* the match number of the first RANKING MATCH row below a row: None when no
   such row follows or when no number can be extracted from it *)
MatchOfPlaceholder(sheet, r) ==
    IF RankingMatchRowsBelow(sheet, r) = {} THEN None
    ELSE _extract_match_number_from_text(
             TaskText(sheet, CHOOSE q \in RankingMatchRowsBelow(sheet, r) :
                                 \A k \in RankingMatchRowsBelow(sheet, r) : q <= k))

(* the slots of the list that are on a row of a sheet *)
SlotsOfRow(sheet, r) ==
    {i \in 1..Len(found_slots) :
        found_slots[i].sheet_title = sheet.title /\ found_slots[i].row_index = r}

(* the sheets of the spreadsheet that have a TASK header *)
TaskSheets == {k \in 1..Len(spreadsheet) : ~IsNone(spreadsheet[k].task_column)}

(* C26: placeholder/match pairing.  In the returned list every placeholder
   row has one slot, tagged with the match number of the first RANKING MATCH
   row below it on its sheet, when that row has an extractable number, and no
   slot otherwise, also when a later RANKING MATCH row has a number; no other
   row has a slot; the list is in ascending order of (sheet title, row,
   placeholder index). *)
C26_PlaceholderMatchPairing ==
    SlotsReturned =>
        /\ \A i \in 1..Len(found_slots) :
              \E k \in TaskSheets :
                  /\ spreadsheet[k].title = found_slots[i].sheet_title
                  /\ found_slots[i].row_index \in PlaceholderRows(spreadsheet[k])
        /\ \A k \in TaskSheets : \A r \in PlaceholderRows(spreadsheet[k]) :
              IF IsNone(MatchOfPlaceholder(spreadsheet[k], r))
              THEN SlotsOfRow(spreadsheet[k], r) = {}
              ELSE /\ Cardinality(SlotsOfRow(spreadsheet[k], r)) = 1
                   /\ \A i \in SlotsOfRow(spreadsheet[k], r) :
                         Some(found_slots[i].match_number)
                             = MatchOfPlaceholder(spreadsheet[k], r)
        /\ \A i, j \in 1..Len(found_slots) :
              i < j => SlotKeyLess(found_slots[i], found_slots[j])

(* the first sheet scanned sorts after the second and both give a slot; on
   one sheet a placeholder is followed by a RANKING MATCH row without number
   and then by another placeholder and a RANKING MATCH row with a number *)
C26_Witness ==
    /\ SlotsReturned
    /\ Len(spreadsheet) = 2
    /\ spreadsheet[1].title = "ROS"
    /\ \E i, j \in 1..Len(found_slots) :
          found_slots[i].sheet_title = "AWARDS" /\ found_slots[j].sheet_title = "ROS"
    /\ \E k \in TaskSheets : \E r \in PlaceholderRows(spreadsheet[k]) :
          /\ RankingMatchRowsBelow(spreadsheet[k], r) # {}
          /\ IsNone(MatchOfPlaceholder(spreadsheet[k], r))
          /\ SlotsOfRow(spreadsheet[k], r) = {}
          /\ \E q \in RankingMatchRowsBelow(spreadsheet[k], r) :
                ~IsNone(_extract_match_number_from_text(TaskText(spreadsheet[k], q)))

(* --------------------------- slot input order -------------------------- *)
(* The engine is given its slots as a list, in the order the caller has
   them; the orders of a list are its permutations. *)
Orders(slot_list) ==
    {[i \in 1..Len(slot_list) |-> slot_list[order[i]]] :
        order \in {f \in [1..Len(slot_list) -> 1..Len(slot_list)] :
                      \A i, j \in 1..Len(slot_list) : i # j => f[i] # f[j]}}

(* the slots of a second sheet *)
OtherSheetTitle == "AWARDS"
OnOtherSheet(slot_list) ==
    [i \in 1..Len(slot_list) |-> [slot_list[i] EXCEPT !.sheet_title = OtherSheetTitle]]

(* one slot more than MaxSlots, all before the first match of the sheet *)
CrowdedMatch ==
    SlotsOfSheet([m \in MatchNumbers |-> IF m = MatchOrder[1] THEN MaxSlots + 1 ELSE 0],
                 Len(MatchOrder))

(* the slots of one sheet in any order, the slots of the crowded match, and
   the slots of two sheets, sheet after sheet *)
SlotOrders ==
    UNION {Orders(slot_list) : slot_list \in SlotLists}
    \cup {CrowdedMatch}
    \cup {pair[1] \o OnOtherSheet(pair[2]) :
             pair \in {q \in (SlotLists \ {<<>>}) \X (SlotLists \ {<<>>}) :
                          Len(q[1]) + Len(q[2]) <= MaxSlots}}

(* schedules that also have lists with two tokens no identity is known for *)
UnknownTokens == <<<<"Z", "Z", "Z">>, <<"Q", "Q", "Q">>>>
OrderCountryLists ==
    CountryLists \cup {UnknownTokens, <<UnknownTokens[1], USA, UnknownTokens[2]>>}
OrderMatchCountryMaps(slot_list) ==
    UNION {[D -> OrderCountryLists] :
              D \in SUBSET {slot_list[i].match_number : i \in 1..Len(slot_list)}}

(* catalogs in which an identity has a video of its base value or no row *)
OrderDatasets ==
    {IngestRows(CatalogRows(choice, Len(CatalogCodes))) :
        choice \in {ch \in CatalogChoices :
                       \A c \in Range(CatalogCodes) :
                           ch[c] \in {None, Some(Some(BaseValue(c)))}}}

(* a call on such slots *)
InitOrder ==
    /\ slots \in SlotOrders
    /\ match_countries \in OrderMatchCountryMaps(slots)
    /\ dataset \in OrderDatasets
    /\ console = FALSE
    /\ pc = "start"
    /\ diagnostics = <<>>
    /\ console_log = <<>>
    /\ slot_candidates = <<>>
    /\ column_codes = <<>>
    /\ cost_matrix = <<>>
    /\ assignments = <<>>
    /\ solver_error = FALSE
    /\ results_by_index = <<>>
    /\ unmatched_indices = <<>>
    /\ assigned_counts = <<>>
    /\ duplicate_messages = <<>>
    /\ ordered_results = <<>>
    /\ calls = 1
    /\ previous = None
    /\ solver_pc = SolverAtRest
    /\ solver_run = SolverIdle
    /\ IdleNormalizer
    /\ IdleIngestion
    /\ IdleSchedule
    /\ IdleCollector

SpecOrder == InitOrder /\ [][Next]_vars

(* (match_number, placeholder_index) of slot a is not after that of slot b *)
MatchIndexOrdered(a, b) ==
    \/ a.match_number < b.match_number
    \/ a.match_number = b.match_number /\ a.placeholder_index <= b.placeholder_index

(* C21 as stated: the returned assignments are in ascending
   (match_number, placeholder_index) order of their slots, whatever the order
   of the slots in the input list. *)
C21_Original ==
    Returned =>
        \A i, j \in 1..Len(ordered_results) :
            i < j => MatchIndexOrdered(ordered_results[i].slot, ordered_results[j].slot)

(* C22 as stated: when no identity is assigned twice, of two slots with the
   same candidate set the one with the lower placeholder_index is not
   assigned the video of the higher value, whatever the order of the two
   slots in the input list. *)
C22_Original ==
    Returned /\ NoIdentityTwice =>
        \A i, j \in 1..Len(ordered_results) :
            /\ ValidCandidates(ordered_results[i].slot) = ValidCandidates(ordered_results[j].slot)
            /\ ordered_results[i].slot.placeholder_index
                   < ordered_results[j].slot.placeholder_index
            => Get(ordered_results[i].video.value) <= Get(ordered_results[j].video.value)

(* the tokens of the schedule entry of a slot's match that no identity is
   known for *)
UnresolvedTokens(slot) ==
    {token \in Range(SlotCountries(slot, match_countries)) :
        IsNone(normalize_country_code(token))}

(* the (sheet, match) pairs of the slots whose match has such a token *)
UnresolvedPairs ==
    {MatchKey(slots[i]) : i \in {k \in 1..Len(slots) : UnresolvedTokens(slots[k]) # {}}}

(* the unrecognized-country-codes diagnostics of a match *)
UnrecognizedDiagnostics(match_number) ==
    {k \in 1..Len(diagnostics) :
        diagnostics[k].kind = "unrecognized_codes" /\ diagnostics[k].match = match_number}

(* C25: unresolved tokens are diagnosed once per (sheet, match) pair.  After
   the slot loop the diagnostics hold, for every match number, as many
   unrecognized-country-codes entries as there are sheets with a slot of that
   match whose schedule entry has a token that fails normalization, each
   naming exactly the failing tokens of the match, however many slots share
   the pair; and no slot's candidates hold a failing token. *)
C25_UnresolvedOncePerPair ==
    pc # "start" =>
        /\ \A i \in 1..Len(diagnostics) :
              diagnostics[i].kind = "unrecognized_codes"
              => \E k \in 1..Len(slots) :
                     /\ slots[k].match_number = diagnostics[i].match
                     /\ diagnostics[i].codes = UnresolvedTokens(slots[k])
                     /\ UnresolvedTokens(slots[k]) # {}
        /\ \A k \in 1..Len(slots) :
              Cardinality(UnrecognizedDiagnostics(slots[k].match_number))
                  = Cardinality({key \in UnresolvedPairs : key[2] = slots[k].match_number})
        /\ \A i \in 1..Len(slot_candidates) :
              /\ Range(slot_candidates[i].codes) \cap UnresolvedTokens(slot_candidates[i].slot) = {}
              /\ Range(slot_candidates[i].codes) \subseteq COUNTRY_CODE_TO_INFO

(* two slots of one sheet and a slot of a second sheet before the same match,
   whose schedule entry has two failing tokens and an identity with a video:
   two diagnostics, three slots with candidates *)
C25_Witness ==
    /\ Returned
    /\ Len(slots) = 3
    /\ \A k \in 1..3 : slots[k].match_number = slots[1].match_number
    /\ Cardinality(UnresolvedPairs) = 2
    /\ Cardinality(UnresolvedTokens(slots[1])) = 2
    /\ Cardinality(UnrecognizedDiagnostics(slots[1].match_number)) = 2
    /\ Len(slot_candidates) = 3

(* --------------------------- claims: the solver ------------------------ *)
(* the solver has returned its list for the matrix of the call *)
Solved == pc \in {"solved", "extracted", "returned"} /\ assignments # <<>>

(* the column the solver gave a row, as an index of column_codes *)
ColumnOf(row) == assignments[row] + 1

(* the row is matched to the column of an identity of its own candidates *)
RealPairing(row) ==
    /\ ~IsNone(column_codes[ColumnOf(row)])
    /\ NumLess(cost_matrix[row][ColumnOf(row)], inf_cost)

(* the first pass is over *)
FirstPassDone == pc \in {"extracted", "returned"} /\ assignments # <<>>

(* C28: the solver's result is a total injection.  For every matrix the call
   builds, the list has one entry per row, every entry is the index of a
   column of the matrix, and no two rows have the same column; in the first
   pass no row is left unmatched for want of a column or because its identity
   was taken by an earlier row: a row is unmatched only when its column is a
   padding column or a forbidden pairing. *)
C28_SolverTotalInjection ==
    /\ Solved =>
          /\ Len(assignments) = Len(cost_matrix)
          /\ Len(cost_matrix) = Len(slot_candidates)
          /\ \A r \in 1..Len(assignments) :
                assignments[r] >= 0 /\ assignments[r] < Len(cost_matrix[r])
          /\ \A r, k \in 1..Len(assignments) : r # k => assignments[r] # assignments[k]
    /\ FirstPassDone =>
          /\ \A i \in 1..Len(diagnostics) : diagnostics[i].kind # "no_available_country"
          /\ \A r \in 1..Len(slot_candidates) :
                r \in Range(unmatched_indices) <=> ~RealPairing(r)

(* a solved matrix of three rows with a padding column: one row is on the
   padding column and is the one unmatched row of the first pass *)
C28_Witness ==
    /\ FirstPassDone
    /\ Len(assignments) = 3
    /\ \E j \in 1..Len(column_codes) : IsNone(column_codes[j])
    /\ \E r \in 1..3 : IsNone(column_codes[ColumnOf(r)]) /\ unmatched_indices = <<r>>

(* C23: real assignments are preferred over padding.  In the solver's result
   a row is on a padding column or on a forbidden pairing only if every
   identity of the row's candidates is matched, as a real pairing, to another
   row; so every identity the fallback hands out is one the first pass gave
   to a row. *)
C23_PaddingOnlyWhenExhausted ==
    /\ Solved =>
          \A r \in 1..Len(assignments) :
              ~RealPairing(r) =>
                  \A i \in 1..Len(slot_candidates[r].codes) :
                      \E k \in 1..Len(assignments) :
                          /\ k # r
                          /\ RealPairing(k)
                          /\ column_codes[ColumnOf(k)] = Some(slot_candidates[r].codes[i])
    /\ pc = "returned" /\ assignments # <<>> =>
          \A n \in 1..Len(unmatched_indices) :
              \E k \in 1..Len(assignments) :
                  /\ k \notin Range(unmatched_indices)
                  /\ results_by_index[k].country_code
                         = results_by_index[unmatched_indices[n]].country_code

(* a returned run in which a row with two candidates was on a padding column
   and the fallback gave it an identity *)
C23_Witness ==
    /\ pc = "returned"
    /\ assignments # <<>>
    /\ \E r \in 1..Len(assignments) :
          /\ IsNone(column_codes[ColumnOf(r)])
          /\ Len(slot_candidates[r].codes) = 2
    /\ Len(unmatched_indices) >= 1

(* ------------------------- claims: the fallback ------------------------ *)
(* the rows the first pass gave an identity *)
FirstPassRows == {r \in DOMAIN results_by_index : r \notin Range(unmatched_indices)}

(* how many rows have been given the identity before the fallback comes to
   its n-th row: the rows of the first pass and the fallback rows before it *)
UsesBefore(n, code) ==
    Cardinality({r \in FirstPassRows : results_by_index[r].country_code = code})
    + Cardinality({k \in 1..(n - 1) :
                      results_by_index[unmatched_indices[k]].country_code = code})

(* (uses so far, value, code) of identity a is before that of identity b *)
FallbackKeyBefore(n, a, b) ==
    \/ UsesBefore(n, a) < UsesBefore(n, b)
    \/ /\ UsesBefore(n, a) = UsesBefore(n, b)
       /\ \/ CatalogValues[a] < CatalogValues[b]
          \/ CatalogValues[a] = CatalogValues[b] /\ CodeLess(a, b)

(* C24: greedy fallback selection.  In a returned run every row the first
   pass left unmatched, taken in row order, has the identity of its
   candidates that is least under (number of assignments of the identity so
   far in the run, video value, code), and at the end the usage counter of
   every identity is the number of rows it was assigned to: one increment per
   assignment. *)
C24_FallbackTakesLeastUsed ==
    pc = "returned" /\ assignments # <<>> =>
        /\ \A n \in 1..Len(unmatched_indices) :
              /\ n > 1 => unmatched_indices[n - 1] < unmatched_indices[n]
              /\ unmatched_indices[n] \in DOMAIN results_by_index
              /\ LET row == unmatched_indices[n]
                     chosen == results_by_index[row].country_code
                 IN /\ Contains(slot_candidates[row].codes, chosen)
                    /\ \A i \in 1..Len(slot_candidates[row].codes) :
                          slot_candidates[row].codes[i] # chosen
                          => FallbackKeyBefore(n, chosen, slot_candidates[row].codes[i])
        /\ DOMAIN assigned_counts =
               {results_by_index[r].country_code : r \in DOMAIN results_by_index}
        /\ \A c \in DOMAIN assigned_counts :
              assigned_counts[c] =
                  Cardinality({r \in DOMAIN results_by_index :
                                  results_by_index[r].country_code = c})

(* four slots with the same two candidates: the first fallback row takes the
   identity of the lower value, and the second, which sees that identity
   used twice, takes the other one *)
C24_Witness ==
    /\ pc = "returned"
    /\ Len(unmatched_indices) = 2
    /\ \A r \in 1..Len(slot_candidates) : Len(slot_candidates[r].codes) = 2
    /\ results_by_index[unmatched_indices[1]].country_code
          # results_by_index[unmatched_indices[2]].country_code
    /\ CatalogValues[results_by_index[unmatched_indices[1]].country_code]
          < CatalogValues[results_by_index[unmatched_indices[2]].country_code]

(* ------------------------ the solver, turn by turn --------------------- *)
(* The call with the loops of _hungarian_algorithm followed one turn at a
   time: the matrix is built, then every turn of `for i`, of the first
   `while True` and of the second `while True` is a step of its own. *)
RunDatasets == OrderDatasets

(* the turns of the inner loops are counted up to here *)
MaxTurns == 16

CountTurn(turns) == IF turns < MaxTurns THEN turns + 1 ELSE turns

InitRun ==
    /\ slots \in SlotLists
    /\ match_countries \in MatchCountryMaps(slots)
    /\ dataset \in RunDatasets
    /\ console = FALSE
    /\ pc = "start"
    /\ diagnostics = <<>>
    /\ console_log = <<>>
    /\ slot_candidates = <<>>
    /\ column_codes = <<>>
    /\ cost_matrix = <<>>
    /\ assignments = <<>>
    /\ solver_error = FALSE
    /\ results_by_index = <<>>
    /\ unmatched_indices = <<>>
    /\ assigned_counts = <<>>
    /\ duplicate_messages = <<>>
    /\ ordered_results = <<>>
    /\ calls = 1
    /\ previous = None
    /\ solver_pc = SolverAtRest
    /\ solver_run = SolverIdle
    /\ IdleNormalizer
    /\ IdleIngestion
    /\ IdleSchedule
    /\ IdleCollector

beside_solver == <<normalizer, ingestion, schedule_map, collector>>

(* Stage B and the entry of the solver: columns, cost matrix, the checks on
   rows and cols, and u, v, p, way *)
BuildMatrix ==
    /\ pc = "filtered"
    /\ \E cols \in {ColumnCodes(slot_candidates)} :
       \E matrix \in {CostMatrix(slot_candidates, cols, dataset)} :
       \E diag \in {diagnostics \o ShortfallDiagnostics(slot_candidates)} :
          /\ column_codes' = cols
          /\ cost_matrix' = matrix
          /\ IF matrix = <<>> \/ matrix[1] = <<>>
             THEN /\ diagnostics' = diag
                  /\ solver_error' = FALSE
                  /\ pc' = "returned"
                  /\ UNCHANGED <<solver_pc, solver_run>>
             ELSE IF HungarianRaises(matrix)
             THEN /\ diagnostics' = Append(diag, Diag("unable_to_compute", 0, "", {}, <<>>))
                  /\ solver_error' = TRUE
                  /\ pc' = "returned"
                  /\ UNCHANGED <<solver_pc, solver_run>>
             ELSE /\ diagnostics' = diag
                  /\ solver_error' = FALSE
                  /\ pc' = "solving"
                  /\ solver_pc' = [phase |-> "row", i |-> 1, parity |-> 0]
                  /\ solver_run' = [turns |-> 0,
                                    st |-> HungarianStart(Len(matrix), Len(matrix[1]))]
    /\ UNCHANGED <<inputs, session, beside_solver, console_log, slot_candidates, assignments,
                   results_by_index, unmatched_indices, assigned_counts,
                   duplicate_messages, ordered_results>>

(* what a solver step leaves alone *)
beside_solver_run ==
    <<inputs, session, beside_solver, diagnostics, console_log, slot_candidates, column_codes,
      cost_matrix, solver_error, results_by_index, unmatched_indices, assigned_counts,
      duplicate_messages, ordered_results>>

(* the other parity: one more turn taken *)
Flip(parity) == 1 - parity

(* a turn of `for i in range(1, rows + 1)` up to the first `while True` *)
StartRow ==
    /\ pc = "solving"
    /\ solver_pc.phase = "row"
    /\ solver_pc.i <= Len(cost_matrix)
    /\ solver_pc' = [solver_pc EXCEPT !.phase = "search"]
    /\ solver_run' =
           [solver_run EXCEPT
               !.st = [@ EXCEPT !.p[0] = solver_pc.i,
                                !.minv = [j \in 0..Len(cost_matrix[1]) |-> MathInf],
                                !.used = [j \in 0..Len(cost_matrix[1]) |-> FALSE],
                                !.j0 = 0]]
    /\ UNCHANGED <<beside_solver_run, pc, assignments>>

(* a turn of the first `while True`: mark j0, scan the unused columns, leave
   on `delta is math.inf`, else shift the potentials, advance j0 and leave
   when the column is free *)
SearchTurn ==
    /\ pc = "solving"
    /\ solver_pc.phase = "search"
    /\ LET marked == [solver_run.st EXCEPT !.used[solver_run.st.j0] = TRUE,
                                          !.delta = MathInf, !.j1 = 0]
           scanned == ScanColumns(cost_matrix, marked, marked.p[marked.j0], 1,
                                  Len(cost_matrix[1]))
           advanced == AdvanceColumn(UpdatePotentials(scanned, 0, Len(cost_matrix[1])))
           left == scanned.delta.inf \/ advanced.p[advanced.j0] = 0
       IN /\ solver_pc' = [solver_pc EXCEPT !.phase = IF left THEN "augment" ELSE "search",
                                            !.parity = Flip(@)]
          /\ solver_run' = [solver_run EXCEPT
                               !.turns = CountTurn(@),
                               !.st = IF scanned.delta.inf THEN scanned ELSE advanced]
    /\ UNCHANGED <<beside_solver_run, pc, assignments>>

(* a turn of the second `while True`: j1 = way[j0]; p[j0] = p[j1]; j0 = j1;
   leave when j0 == 0 *)
AugmentTurn ==
    /\ pc = "solving"
    /\ solver_pc.phase = "augment"
    /\ LET j1 == solver_run.st.way[solver_run.st.j0]
       IN /\ solver_pc' = [solver_pc EXCEPT !.phase = IF j1 = 0 THEN "row" ELSE "augment",
                                            !.i = IF j1 = 0 THEN @ + 1 ELSE @,
                                            !.parity = Flip(@)]
          /\ solver_run' = [solver_run EXCEPT !.turns = CountTurn(@),
                                              !.st = AugmentStep(@, j1)]
    /\ UNCHANGED <<beside_solver_run, pc, assignments>>

(* the end of the solver: the assignment list is read off p *)
ReturnAssignment ==
    /\ pc = "solving"
    /\ solver_pc.phase = "row"
    /\ solver_pc.i > Len(cost_matrix)
    /\ assignments' = HungarianAssignment(solver_run.st.p, Len(cost_matrix),
                                          Len(cost_matrix[1]))
    /\ solver_pc' = [solver_pc EXCEPT !.phase = "done"]
    /\ pc' = "solved"
    /\ UNCHANGED <<beside_solver_run, solver_run>>

(* the first pass and the fallback, after a solver followed turn by turn *)
ExtractAfterRun ==
    /\ solver_pc.phase = "done"
    /\ ExtractFirstPass

FallbackAfterRun ==
    /\ solver_pc.phase = "done"
    /\ DuplicateFallback

NextRun ==
    \/ FilterCandidates
    \/ BuildMatrix
    \/ StartRow
    \/ SearchTurn
    \/ AugmentTurn
    \/ ReturnAssignment
    \/ ExtractAfterRun
    \/ FallbackAfterRun

(* the points control can be at *)
CallPoints == {"start", "filtered", "solving", "solved", "extracted", "returned"}
SolverPoints ==
    [phase : {"idle", "row", "search", "augment", "done"}, i : 0..(MaxSlots + 1),
     parity : {0, 1}]

control == <<pc, solver_pc>>

(* The function is sequential code on one thread: while the call has not
   returned, the interpreter executes the statement control is at, and
   control moves on.  What the step does is NextRun's to say. *)
Proceed ==
    /\ pc # "returned"
    /\ pc' \in CallPoints
    /\ solver_pc' \in SolverPoints

SpecRun == InitRun /\ [][NextRun]_vars /\ WF_control(Proceed)

(* the list read off p is the list of _hungarian_algorithm *)
RunAgreesWithSolver ==
    solver_pc.phase = "done" => assignments = _hungarian_algorithm(cost_matrix)

(* a call that has not returned is at a statement: the guard of a step holds *)
AtAStep ==
    \/ pc \in {"start", "filtered", "solved", "extracted"}
    \/ /\ pc = "solving"
       /\ solver_pc.phase \in {"row", "search", "augment"}

(* C27: termination.  Every call returns; a solver that was entered with a
   matrix of cols >= rows leaves its loops and returns its list; and until
   the call returns control is at a statement of it, within the points named. *)
C27_Terminates ==
    /\ <>(pc = "returned")
    /\ (pc = "solving" ~> pc = "solved")
    /\ [](pc \in CallPoints /\ solver_pc \in SolverPoints)
    /\ [](pc # "returned" => AtAStep)

(* a returned call whose solver went through three rows and took more turns
   of its inner loops than twice the number of rows *)
C27_Witness ==
    /\ pc = "returned"
    /\ solver_pc.phase = "done"
    /\ Len(cost_matrix) = 3
    /\ solver_run.turns > 2 * Len(cost_matrix)

=============================================================================
